---- MODULE Spec2Model ----
(***************************************************************************)
(* Verification model of the ingestion-and-normalisation core of the       *)
(* aisync skill: the secret redactor (lib/redact.py), the format adapters  *)
(* (lib/parsers/*.py), the provider sweep (BaseParser.parse_all) and the   *)
(* output writers that persist redacted text (lib/outputs/*.py).           *)
(*                                                                         *)
(* Text is modelled as a sequence of lexemes.  A lexeme is a literal       *)
(* string; a text is the concatenation of its lexemes.  Input texts are    *)
(* drawn from Texts: sequences over Alphabet in which two word lexemes are *)
(* always separated by a delimiter ("=" or " "), so that every match of a  *)
(* pattern of SECRET_PATTERNS begins and ends on a lexeme boundary.  Each  *)
(* regular expression is modelled by what it matches on such texts.        *)
(***************************************************************************)
EXTENDS Integers, Sequences, FiniteSets, TLC

VARIABLES
  \* A SecretRedactor instance (lib/redact.py)
  constructed,  \* "none", "ready", or "raised" when __init__ raised
  patterns,     \* self.patterns
  compiled,     \* self._compiled
  call,         \* the last redact / redact_simple call and what it returned
  redactCalls,  \* the calls made on the instance so far, in order
  \* A parser and one parse_session call (lib/parsers)
  provider,     \* the adapter that was constructed
  path,         \* the location handed to parse_session
  file,         \* the file at that location
  result,       \* what the call did: return None, return a Session, raise
  \* One parse_all sweep (lib/parsers/base.py)
  fs,           \* the file at each location of the provider
  discovered,   \* paths, as get_session_paths returned them
  idx,          \* the position of the loop in paths
  yielded,      \* the Sessions yielded so far
  pc,           \* "idle", "running", "done", or "crashed" on an exception
  \* An output writer (lib/outputs)
  output,       \* "obsidian" or "sqlite"
  redactFlag,   \* self.redact
  written,      \* the Session handed to write_session
  store,        \* what is persisted, by file name or primary key
  \* The role step of an adapter's message loop
  roleCall,     \* the role string of an entry and the role it was given
  \* Discovery and sync_all (lib/parsers, lib/__init__.py)
  disk,         \* the home directory: what lies at each location
  found,        \* what get_session_paths of the adapter returned or raised
  syncIdx,      \* the position of sync_all in the registry
  swept,        \* per provider swept, the locations parse_all went through
  syncpc,       \* "idle", "running", "done", or "raised" when sync_all raised
  \* Two parse_session calls (lib/parsers)
  frames,       \* the parse_session calls: adapter, location, file, locals, result
  last,         \* the locals the last call to return left behind
  \* The message array an adapter picks from a document (lib/parsers)
  keyCall,      \* "idle", or "done" with the array the adapter iterates over
  \* One find_files call (lib/parsers/base.py)
  searched,     \* the directory searched
  pending,      \* the directories rglob has still to visit, next first
  results,      \* the locations appended so far
  skipped,      \* the directories whose listing raised PermissionError
  findpc,       \* "idle", "walking", "done", or "raised" when find_files raised
  \* Outputs and write_sessions (lib/outputs, lib/__init__.py)
  target,       \* the output plugin: its kind and its redact option
  batch,        \* the Session objects handed to write_sessions
  asParsed,     \* the Sessions as the sweep yielded them
  persisted,    \* per kind of output, the entries on disk, oldest first
  cache,        \* self._sessions_cache of the single-file JSON output
  tally,        \* the SyncResult of the write_sessions call
  faults,       \* per Session, the call that raises for it, or none
  runs,         \* the write_sessions calls that returned: plugin and SyncResult
  wpos,         \* the position of the loop of write_sessions
  wpc           \* idle, running, or done when write_sessions returned

redactorVars == <<constructed, patterns, compiled, call, redactCalls>>
parseVars == <<provider, path, file, result>>
sweepVars == <<fs, discovered, idx, yielded, pc>>
outputVars == <<output, redactFlag, written, store>>
roleVars == <<roleCall>>
discoverVars == <<disk, found, syncIdx, swept, syncpc>>
callVars == <<frames, last>>
keyVars == <<keyCall>>
findVars == <<searched, pending, results, skipped, findpc>>
writerVars ==
  <<target, batch, asParsed, persisted, cache, tally, faults, runs, wpos,
    wpc>>
vars ==
  <<redactorVars, parseVars, sweepVars, outputVars, roleVars,
    discoverVars, callVars, keyVars, findVars, writerVars>>

\* What an operation of one component leaves alone: the other components.
notRedactor ==
  <<parseVars, sweepVars, outputVars, roleVars, discoverVars, callVars,
    keyVars, findVars, writerVars>>
notParse ==
  <<redactorVars, sweepVars, outputVars, roleVars, discoverVars,
    callVars, keyVars, findVars, writerVars>>
notSweep ==
  <<redactorVars, parseVars, outputVars, roleVars, discoverVars,
    callVars, keyVars, findVars, writerVars>>
notOutput ==
  <<redactorVars, parseVars, sweepVars, roleVars, discoverVars, callVars,
    keyVars, findVars, writerVars>>
notRole ==
  <<redactorVars, parseVars, sweepVars, outputVars, discoverVars,
    callVars, keyVars, findVars, writerVars>>
notDiscover ==
  <<redactorVars, parseVars, sweepVars, outputVars, roleVars, callVars,
    keyVars, findVars, writerVars>>
notCalls ==
  <<redactorVars, parseVars, sweepVars, outputVars, roleVars,
    discoverVars, keyVars, findVars, writerVars>>
notKeys ==
  <<redactorVars, parseVars, sweepVars, outputVars, roleVars,
    discoverVars, callVars, findVars, writerVars>>
notFind ==
  <<redactorVars, parseVars, sweepVars, outputVars, roleVars,
    discoverVars, callVars, keyVars, writerVars>>
notWriter ==
  <<redactorVars, parseVars, sweepVars, outputVars, roleVars,
    discoverVars, callVars, keyVars, findVars>>

\* ------------------------------------------------------------------------
\* Bounds of the model
\* ------------------------------------------------------------------------

\* parse_session calls in one behaviour.
MaxCalls == 2

\* redact / redact_simple calls on one instance in one behaviour.
MaxRedactCalls == 3

\* Longest input text, in lexemes.
MaxTextLen == 4

\* ------------------------------------------------------------------------
\* Lexemes
\* ------------------------------------------------------------------------

\* An OpenAI key: "sk-" and 36 alphanumerics (redact.py:25).
SK == "sk-ABCDEFGHIJKLMNOPQRSTUVWXYZ0123456789"
\* A Google OAuth token, shorter than the generic fallback's minimum value
\* length of 8 (redact.py:33).
YA == "ya29.a"
\* A Slack webhook URL (redact.py:85).
HOOK == "https://hooks.slack.com/services/T0/B0/xx"
\* A keyword of the generic assignment fallback (redact.py:78).
KW == "token"
\* An ordinary value of 14 characters: no vendor literal.
VAL == "hunter2hunter2"
\* A literal of the custom pattern CORP-[0-9]{6}.
CORP == "CORP-123456"
\* The first ten characters of every placeholder but the URL one.
HEAD == "[REDACTED:"
\* The key type that starts an SSH public key, 7 characters (redact.py:82).
RSA == "ssh-rsa"

WordLexemes == {SK, YA, HOOK, KW, VAL, CORP}
DelimLexemes == {"=", " "}
Alphabet == WordLexemes \cup DelimLexemes

\* Python's str.isspace on a one-lexeme string.
IsSpace(l) == l \in {" ", "  ", "\n\n"}

\* The lexeme holds no whitespace and no quote: [^"'\s] matches all of it.
\* The tail of a placeholder (" OpenAI API Key]") starts with a blank.
IsSolid(l) == l \in WordLexemes \cup {"=", HEAD, "://[USER]:[REDACTED]@", "...", RSA}

\* len() of a lexeme.
CharLen(l) ==
  CASE l = "sk-ABCDEFGHIJKLMNOPQRSTUVWXYZ0123456789" -> 39
    [] l = "ya29.a" -> 6
    [] l = "https://hooks.slack.com/services/T0/B0/xx" -> 41
    [] l = "token" -> 5
    [] l = "=" -> 1
    [] l = " " -> 1
    [] l = "hunter2hunter2" -> 14
    [] l = "CORP-123456" -> 11
    [] l = "[REDACTED:" -> 10
    [] l = "ssh-rsa" -> 7
    [] l = "..." -> 3
    [] l = " Corp Secret]" -> 13
    [] l = " OpenAI API Key]" -> 16
    [] l = " OpenAI Project Key]" -> 20
    [] l = " Anthropic API Key]" -> 19
    [] l = " Google API Key]" -> 16
    [] l = " Google OAuth Token]" -> 20
    [] l = " Sourcegraph Token]" -> 19
    [] l = " GitHub PAT]" -> 12
    [] l = " GitHub OAuth]" -> 14
    [] l = " GitHub App Token]" -> 18
    [] l = " GitHub User Token]" -> 19
    [] l = " GitHub PAT v2]" -> 15
    [] l = " AWS Access Key]" -> 16
    [] l = " AWS Secret]" -> 12
    [] l = " AWS Session Token]" -> 19
    [] l = " Azure Key]" -> 11
    [] l = " Bearer Token]" -> 14
    [] l = " JWT Token]" -> 11
    [] l = " Slack Token]" -> 13
    [] l = " Stripe Live Key]" -> 17
    [] l = " Stripe Test Key]" -> 17
    [] l = " Stripe Pub Key]" -> 16
    [] l = " PostgreSQL URL]" -> 16
    [] l = " MySQL URL]" -> 11
    [] l = " MongoDB URL]" -> 13
    [] l = " Redis URL]" -> 11
    [] l = " AMQP URL]" -> 10
    [] l = " Private Key Block]" -> 19
    [] l = "://[USER]:[REDACTED]@" -> 21
    [] l = " Credential]" -> 12
    [] l = " SSH Public Key]" -> 16
    [] l = " Slack Webhook]" -> 15
    [] l = " Discord Webhook]" -> 17
    [] l = "\n\n" -> 2
    [] l = "  " -> 2
    [] l = "5" -> 1
    [] l = "x * 484" -> 484
    [] l = "x * 500" -> 500
    [] l = "grep" -> 4
    [] l = "grep -r TODO" -> 12
    [] l = "command" -> 7
    [] l = "{" -> 1
    [] l = "{}" -> 2
    [] l = "," -> 1
    [] l = "\"" -> 1
    [] l = "\n  \"" -> 4
    [] l = "\": \"" -> 4
    [] l = "\n}" -> 2
    [] l = "repr" -> 4
    [] l = "fix the bug" -> 11
    [] l = "done" -> 4
    [] l = "/tmp/proj" -> 9
    [] l = "17123456" -> 8
    [] l = "17129999" -> 8
    [] l = "78901" -> 5
    [] l = "99999" -> 5
    [] l = "00000" -> 5
    [] l = "None" -> 4
    [] l = "0a1b2c3d" -> 8
    [] l = "-e5f6" -> 5
    [] l = "sessions" -> 8
    [] l = "continue" -> 8
    [] l = "history" -> 7
    [] l = "tasks" -> 5
    [] l = "task-001" -> 8
    [] l = "-full" -> 5
    [] l = "conversa" -> 8
    [] l = "tion" -> 4
    [] l = "sess-123" -> 8
    [] l = "4567" -> 4
    [] OTHER -> 0

RECURSIVE TextLen(_)
\* len(text)
TextLen(t) == IF t = <<>> THEN 0 ELSE CharLen(Head(t)) + TextLen(Tail(t))

\* Input texts: at most MaxTextLen lexemes, no two word lexemes adjacent.
WellFormed(t) ==
  \A i \in 1..(Len(t) - 1) : ~(t[i] \in WordLexemes /\ t[i + 1] \in WordLexemes)

Texts ==
  {t \in UNION {[1..n -> Alphabet] : n \in 0..MaxTextLen} : WellFormed(t)}

\* ------------------------------------------------------------------------
\* lib/redact.py
\* ------------------------------------------------------------------------

\* SECRET_PATTERNS, in source order.  re names the regular expression,
\* repl is the replacement as lexemes, valid says that re.compile accepts it.
SECRET_PATTERNS ==
  <<
    [re |-> "openai", repl |-> <<"[REDACTED:", " OpenAI API Key]">>, category |-> "api_key", valid |-> TRUE],
    [re |-> "openai_proj", repl |-> <<"[REDACTED:", " OpenAI Project Key]">>, category |-> "api_key", valid |-> TRUE],
    [re |-> "anthropic", repl |-> <<"[REDACTED:", " Anthropic API Key]">>, category |-> "api_key", valid |-> TRUE],
    [re |-> "google_api", repl |-> <<"[REDACTED:", " Google API Key]">>, category |-> "api_key", valid |-> TRUE],
    [re |-> "google_oauth", repl |-> <<"[REDACTED:", " Google OAuth Token]">>, category |-> "oauth", valid |-> TRUE],
    [re |-> "sourcegraph", repl |-> <<"[REDACTED:", " Sourcegraph Token]">>, category |-> "api_key", valid |-> TRUE],
    [re |-> "github_pat", repl |-> <<"[REDACTED:", " GitHub PAT]">>, category |-> "github", valid |-> TRUE],
    [re |-> "github_oauth", repl |-> <<"[REDACTED:", " GitHub OAuth]">>, category |-> "github", valid |-> TRUE],
    [re |-> "github_app", repl |-> <<"[REDACTED:", " GitHub App Token]">>, category |-> "github", valid |-> TRUE],
    [re |-> "github_user", repl |-> <<"[REDACTED:", " GitHub User Token]">>, category |-> "github", valid |-> TRUE],
    [re |-> "github_pat_v2", repl |-> <<"[REDACTED:", " GitHub PAT v2]">>, category |-> "github", valid |-> TRUE],
    [re |-> "aws_key", repl |-> <<"[REDACTED:", " AWS Access Key]">>, category |-> "aws", valid |-> TRUE],
    [re |-> "aws_secret", repl |-> <<"[REDACTED:", " AWS Secret]">>, category |-> "aws", valid |-> TRUE],
    [re |-> "aws_session", repl |-> <<"[REDACTED:", " AWS Session Token]">>, category |-> "aws", valid |-> TRUE],
    [re |-> "azure", repl |-> <<"[REDACTED:", " Azure Key]">>, category |-> "azure", valid |-> TRUE],
    [re |-> "bearer", repl |-> <<"[REDACTED:", " Bearer Token]">>, category |-> "bearer", valid |-> TRUE],
    [re |-> "jwt", repl |-> <<"[REDACTED:", " JWT Token]">>, category |-> "jwt", valid |-> TRUE],
    [re |-> "slack_token", repl |-> <<"[REDACTED:", " Slack Token]">>, category |-> "slack", valid |-> TRUE],
    [re |-> "stripe_live", repl |-> <<"[REDACTED:", " Stripe Live Key]">>, category |-> "stripe", valid |-> TRUE],
    [re |-> "stripe_test", repl |-> <<"[REDACTED:", " Stripe Test Key]">>, category |-> "stripe", valid |-> TRUE],
    [re |-> "stripe_pub", repl |-> <<"[REDACTED:", " Stripe Pub Key]">>, category |-> "stripe", valid |-> TRUE],
    [re |-> "postgres", repl |-> <<"[REDACTED:", " PostgreSQL URL]">>, category |-> "database", valid |-> TRUE],
    [re |-> "mysql", repl |-> <<"[REDACTED:", " MySQL URL]">>, category |-> "database", valid |-> TRUE],
    [re |-> "mongodb", repl |-> <<"[REDACTED:", " MongoDB URL]">>, category |-> "database", valid |-> TRUE],
    [re |-> "redis", repl |-> <<"[REDACTED:", " Redis URL]">>, category |-> "database", valid |-> TRUE],
    [re |-> "amqp", repl |-> <<"[REDACTED:", " AMQP URL]">>, category |-> "database", valid |-> TRUE],
    [re |-> "private_key", repl |-> <<"[REDACTED:", " Private Key Block]">>, category |-> "private_key", valid |-> TRUE],
    [re |-> "password_url", repl |-> <<"://[USER]:[REDACTED]@">>, category |-> "password_url", valid |-> TRUE],
    [re |-> "credential", repl |-> <<"[REDACTED:", " Credential]">>, category |-> "credential", valid |-> TRUE],
    [re |-> "ssh", repl |-> <<"[REDACTED:", " SSH Public Key]">>, category |-> "ssh", valid |-> TRUE],
    [re |-> "slack_webhook", repl |-> <<"[REDACTED:", " Slack Webhook]">>, category |-> "webhook", valid |-> TRUE],
    [re |-> "discord_webhook", repl |-> <<"[REDACTED:", " Discord Webhook]">>, category |-> "webhook", valid |-> TRUE]
  >>

\* Custom patterns a caller may pass to SecretRedactor(custom_patterns).
CorpPattern ==
  [re |-> "corp", repl |-> <<HEAD, " Corp Secret]">>, category |-> "custom",
   valid |-> TRUE]
\* "(unclosed": re.compile raises re.error.
BadPattern ==
  [re |-> "unclosed", repl |-> <<"X">>, category |-> "broken", valid |-> FALSE]

CustomChoices ==
  {<<>>, <<CorpPattern>>, <<BadPattern>>, <<BadPattern, CorpPattern>>,
   <<CorpPattern, BadPattern>>}

\* The minimum value length {8,} of the generic fallback.
MinValueLen == 8

RECURSIVE SpaceRun(_, _)
\* \s* from position k: the number of blank lexemes.
SpaceRun(t, k) ==
  IF k <= Len(t) /\ IsSpace(t[k]) THEN 1 + SpaceRun(t, k + 1) ELSE 0

RECURSIVE SolidRun(_, _)
\* A greedy run of non-blank characters from position k: the number of
\* lexemes it covers.
SolidRun(t, k) ==
  IF k <= Len(t) /\ IsSolid(t[k]) THEN 1 + SolidRun(t, k + 1) ELSE 0

\* (?i)(?:password|passwd|pwd|secret|token|api[_-]?key)\s*[=:]\s*
\*   ["']?([^"'\s]{8,})["']?   at position i: lexemes matched, 0 for none.
CredentialMatch(t, i) ==
  IF t[i] # KW THEN 0
  ELSE LET j == i + 1 + SpaceRun(t, i + 1) IN
       IF ~(j <= Len(t) /\ t[j] = "=") THEN 0
       ELSE LET k == j + 1 + SpaceRun(t, j + 1)
                n == SolidRun(t, k)
            IN IF TextLen(SubSeq(t, k, k + n - 1)) >= MinValueLen
               THEN (k - i) + n
               ELSE 0

RECURSIVE PadRun(_, _, _)
\* [=]{0,n} from position k: the number of "=" lexemes, at most n.
PadRun(t, k, n) ==
  IF n > 0 /\ k <= Len(t) /\ t[k] = "=" THEN 1 + PadRun(t, k + 1, n - 1) ELSE 0

\* ssh-(?:rsa|ed25519|ecdsa)\s+[A-Za-z0-9+/]+[=]{0,2} at position i: the
\* base64 body is a lexeme of letters and digits.
SshMatch(t, i) ==
  IF t[i] # RSA THEN 0
  ELSE LET s == SpaceRun(t, i + 1)
           k == i + 1 + s
       IN IF s > 0 /\ k <= Len(t) /\ t[k] \in {KW, VAL}
          THEN (k - i) + 1 + PadRun(t, k + 1, 2)
          ELSE 0

\* pattern.match at position i of text t: the number of lexemes the match
\* covers, 0 when the pattern does not match there.  A pattern none of whose
\* literals is in the alphabet matches nowhere.
MatchLen(p, t, i) ==
  CASE p.re = "openai" -> IF t[i] = SK THEN 1 ELSE 0
    [] p.re = "google_oauth" -> IF t[i] = YA THEN 1 ELSE 0
    [] p.re = "credential" -> CredentialMatch(t, i)
    [] p.re = "ssh" -> SshMatch(t, i)
    [] p.re = "slack_webhook" ->
         IF t[i] = HOOK THEN 1 + SolidRun(t, i + 1) ELSE 0
    [] p.re = "corp" -> IF t[i] = CORP THEN 1 ELSE 0
    [] OTHER -> 0

RECURSIVE FindallFrom(_, _, _)
\* len(pattern.findall(text)): leftmost, non-overlapping matches from i.
FindallFrom(p, t, i) ==
  IF i > Len(t) THEN 0
  ELSE LET n == MatchLen(p, t, i) IN
       IF n > 0 THEN 1 + FindallFrom(p, t, i + n)
       ELSE FindallFrom(p, t, i + 1)

\* pattern.match in place of pattern.findall: only a match at the start.
MatchAtStart(p, t) == IF MatchLen(p, t, 1) > 0 THEN 1 ELSE 0
Findall(p, t) == FindallFrom(p, t, 1)

RECURSIVE SubFrom(_, _, _)
\* pattern.sub(replacement, text) from i.
SubFrom(p, t, i) ==
  IF i > Len(t) THEN <<>>
  ELSE LET n == MatchLen(p, t, i) IN
       IF n > 0 THEN p.repl \o SubFrom(p, t, i + n)
       ELSE <<t[i]>> \o SubFrom(p, t, i + 1)

Sub(p, t) == SubFrom(p, t, 1)

\* redaction_counts[category] = redaction_counts.get(category, 0) + count
Bump(counts, category, n) ==
  [c \in DOMAIN counts \cup {category} |->
     (IF c \in DOMAIN counts THEN counts[c] ELSE 0)
     + (IF c = category THEN n ELSE 0)]

\* RedactionResult(0, 0, 0, {})
EmptyResult ==
  [original_length |-> 0, redacted_length |-> 0, redactions_count |-> 0,
   redaction_types |-> <<>>]

\* self._compiled = [(re.compile(p), r, c) for p, r, c in self.patterns]:
\* the list comprehension raises re.error at the first pattern that does not
\* compile, and nothing catches it.
CompileAll(ps) ==
  IF \E i \in DOMAIN ps : ~ps[i].valid
  THEN [raised |-> TRUE, compiled |-> <<>>]
  ELSE [raised |-> FALSE, compiled |-> ps]

RECURSIVE RedactLoop(_, _, _, _, _)
\* The loop of SecretRedactor.redact over self._compiled from index i.
RedactLoop(comp, i, text, counts, total) ==
  IF i > Len(comp) THEN [text |-> text, counts |-> counts, total |-> total]
  ELSE LET count == Findall(comp[i], text) IN
       IF count > 0
       THEN RedactLoop(comp, i + 1, Sub(comp[i], text),
                       Bump(counts, comp[i].category, count), total + count)
       ELSE RedactLoop(comp, i + 1, text, counts, total)

\* SecretRedactor.redact(text) -> (text, RedactionResult)
redact(comp, text) ==
  IF text = <<>> THEN [text |-> text, result |-> EmptyResult]
  ELSE LET r == RedactLoop(comp, 1, text, <<>>, 0) IN
       [text |-> r.text,
        result |-> [original_length |-> TextLen(text),
                    redacted_length |-> TextLen(r.text),
                    redactions_count |-> r.total,
                    redaction_types |-> r.counts]]

RECURSIVE SimpleLoop(_, _, _)
\* The loop of SecretRedactor.redact_simple.
SimpleLoop(comp, i, text) ==
  IF i > Len(comp) THEN text
  ELSE SimpleLoop(comp, i + 1, Sub(comp[i], text))

\* SecretRedactor.redact_simple(text) -> text
redact_simple(comp, text) ==
  IF text = <<>> THEN text ELSE SimpleLoop(comp, 1, text)

\* default_redactor = SecretRedactor(): no custom patterns.
default_redactor == CompileAll(SECRET_PATTERNS).compiled

\* redact_secrets(text)
redact_secrets(text) == redact_simple(default_redactor, text)

\* ------------------------------------------------------------------------
\* JSON values, as json.loads returns them
\* ------------------------------------------------------------------------

\* Text json.loads rejects (a truncated or garbage line or document).
Garbage == [t |-> "garbage", v |-> 0]
\* A line of blanks only.
Blank == [t |-> "blank", v |-> 0]
Num == [t |-> "num", v |-> 5]
\* A JSON number above 10^12, held as its value divided by 1000.
Big(v) == [t |-> "bignum", v |-> v]
Null == [t |-> "null", v |-> 0]
Str(s) == [t |-> "str", v |-> s]
List(s) == [t |-> "list", v |-> s]
Dict(f) == [t |-> "dict", v |-> f]
EmptyDict == Dict(<<>>)

\* bool(x)
Truthy(x) ==
  CASE x.t = "num" -> x.v # 0
    [] x.t = "bignum" -> TRUE
    [] x.t \in {"str", "list"} -> x.v # <<>>
    [] x.t = "dict" -> DOMAIN x.v # {}
    [] OTHER -> FALSE

\* d.get(key, default) on a dict d
Get(d, key, default) == IF key \in DOMAIN d.v THEN d.v[key] ELSE default

\* x == 'literal' for a JSON value x
IsStr(x, literal) == x.t = "str" /\ x.v = <<literal>>

\* str.lower() on the role literals.
LowerLexeme(l) ==
  CASE l \in {"USER", "User"} -> "user"
    [] l \in {"HUMAN", "Human"} -> "human"
    [] l \in {"ASSISTANT", "Assistant"} -> "assistant"
    [] l \in {"AI", "Ai"} -> "ai"
    [] l \in {"MODEL", "Model"} -> "model"
    [] l \in {"SYSTEM", "System"} -> "system"
    [] l \in {"TOOL", "Tool"} -> "tool"
    [] l \in {"FUNCTION", "Function"} -> "function"
    [] OTHER -> l

Lower(s) == [i \in DOMAIN s |-> LowerLexeme(s[i])]

RECURSIVE Take(_, _)
\* s[:n], for a text in which a lexeme ends at character n or that is shorter.
Take(s, n) ==
  IF s = <<>> \/ CharLen(Head(s)) > n THEN <<>>
  ELSE <<Head(s)>> \o Take(Tail(s), n - CharLen(Head(s)))

RECURSIVE Strip(_)
RECURSIVE StripRight(_)
StripRight(s) ==
  IF s # <<>> /\ IsSpace(s[Len(s)]) THEN StripRight(SubSeq(s, 1, Len(s) - 1))
  ELSE s
\* str.strip()
Strip(s) == IF s # <<>> /\ IsSpace(Head(s)) THEN Strip(Tail(s)) ELSE StripRight(s)

RECURSIVE Join(_)
\* '\n\n'.join(parts)
Join(parts) ==
  IF parts = <<>> THEN <<>>
  ELSE IF Len(parts) = 1 THEN parts[1]
  ELSE parts[1] \o <<"\n\n">> \o Join(Tail(parts))

\* datetime.fromisoformat(x.replace('Z', '+00:00')) inside try/except: the
\* instant, or 0 for None when x is no ISO-8601 string.
FromIso(x) ==
  IF IsStr(x, "2024-01-01T00:00:01Z") THEN 1
  ELSE IF IsStr(x, "2024-01-01T00:00:02Z") THEN 2
  ELSE 0

\* ------------------------------------------------------------------------
\* lib/models.py
\* ------------------------------------------------------------------------

\* Message(role=..., content=..., timestamp=...); 0 stands for None.
StampedMessage(role, content, timestamp) ==
  [role |-> role, content |-> content, timestamp |-> timestamp]

\* Message(role=..., content=...): timestamp keeps its default, None.
Message(role, content) == StampedMessage(role, content, 0)

Session(id, prov, messages, created_at, working_dir, model, p, mtime) ==
  [id |-> id, provider |-> prov, messages |-> messages,
   created_at |-> created_at, working_dir |-> working_dir, model |-> model,
   source_file |-> p, source_mtime |-> mtime]

\* ------------------------------------------------------------------------
\* lib/parsers: what parse_session returns
\* ------------------------------------------------------------------------

NoPath == [parent |-> <<>>, stem |-> <<>>, suffix |-> ""]
NoSession == Session(<<>>, "", <<>>, 0, Null, Null, NoPath, 0)

\* return None
ReturnNone == [kind |-> "none", exc |-> "", session |-> NoSession]
\* an exception leaves parse_session
Raise(exc) == [kind |-> "raise", exc |-> exc, session |-> NoSession]
\* return Session(...)
Return(s) == [kind |-> "session", exc |-> "", session |-> s]

\* The return without the guard on messages.
ReturnAlways(messages, s) == Return(s)

\* if not messages: return None, else the Session
ReturnIfMessages(messages, s) ==
  IF messages = <<>> THEN ReturnNone ELSE Return(s)

\* The state of a loop that appends to messages: exc is the exception that
\* left the loop, "" while none has.
Acc(messages) == [messages |-> messages, exc |-> ""]

\* str(x)
PyStr(x) ==
  CASE x.t = "str" -> x.v
    [] x.t = "num" -> <<"5">>
    [] x.t = "null" -> <<"None">>
    [] OTHER -> <<"repr">>

RECURSIVE ForEach(_, _, _)
\* for item in items: acc = Body(acc, item), left at the first exception.
ForEach(Body(_, _), acc, items) ==
  IF items = <<>> \/ acc.exc # "" THEN acc
  ELSE ForEach(Body, Body(acc, Head(items)), Tail(items))

\* for x in v: a list gives its elements; a string gives characters and a
\* dict gives keys, none of which is a dict; anything else raises TypeError.
Iterable(v) == v.t \in {"list", "str", "dict"}
Items(v) == IF v.t = "list" THEN v.v ELSE <<>>

Append1(acc, role, content) ==
  [acc EXCEPT !.messages = acc.messages \o <<Message(role, content)>>]

NotBlank(line) == line.t # "blank"

\* ---- lib/parsers/claude.py ----

\* '\n\n'.join(parts) for a list of JSON values: TypeError unless all are str.
JoinValues(vals) ==
  IF \A i \in DOMAIN vals : vals[i].t = "str"
  THEN [exc |-> "", content |-> Str(Join([i \in DOMAIN vals |-> vals[i].v]))]
  ELSE [exc |-> "TypeError", content |-> Null]

\* The characters kept of a tool's arguments and of a tool's result.
InputLimit == 500
ResultLimit == 1000

\* The literal pieces of the f-strings of _extract_text.  WRENCH and OUTBOX
\* stand for the two emoji, ~~~ for the fence of three backquotes.
ToolMark == "**WRENCH Tool: "
ResultMark == "**OUTBOX Result:**\n~~~\n"
FenceOpen == "~~~\n"
FenceClose == "\n~~~"

\* json.dumps(d, indent=2) of a dict of string values, key by key.
RECURSIVE DumpItems(_, _)
DumpItems(d, keys) ==
  IF keys = {} THEN <<>>
  ELSE LET k == CHOOSE k \in keys : TRUE IN
       <<"\n  \"", k, "\": \"">> \o d[k].v \o <<"\"">>
       \o (IF keys = {k} THEN <<>> ELSE <<",">>)
       \o DumpItems(d, keys \ {k})
JsonDumps(x) ==
  IF DOMAIN x.v = {} THEN <<"{}">>
  ELSE <<"{">> \o DumpItems(x.v, DOMAIN x.v) \o <<"\n}">>

\* The truncation that keeps everything.
NoCut(s, n) == s

\* s[:n]
Cut(s, n) == Take(s, n)

\* What one item of the content list adds to parts.
ClaudePart(item) ==
  IF item.t = "str" THEN <<item>>
  ELSE IF item.t # "dict" THEN <<>>
  ELSE
    LET type == Get(item, "type", Null) IN
    IF IsStr(type, "text") /\ Truthy(Get(item, "text", Null))
      THEN <<item.v["text"]>>
    ELSE IF IsStr(type, "tool_use")
      THEN LET tool_name == Get(item, "name", Str(<<"tool">>))
               input == Get(item, "input", Null)
               input_str == IF input.t = "dict"
                            THEN Cut(JsonDumps(input), InputLimit)
                            ELSE Cut(PyStr(input), InputLimit)
           IN <<Str(<<ToolMark>> \o PyStr(tool_name) \o <<"**">>)>>
              \o (IF Truthy(input)
                  THEN <<Str(<<FenceOpen>> \o input_str \o <<FenceClose>>)>>
                  ELSE <<>>)
    ELSE IF IsStr(type, "tool_result") /\ Truthy(Get(item, "content", Null))
      THEN <<Str(<<ResultMark>>
                 \o Cut(PyStr(item.v["content"]), ResultLimit)
                 \o <<FenceClose>>)>>
    ELSE <<>>

RECURSIVE ClaudeParts(_)
\* The parts list of _extract_text.
ClaudeParts(items) ==
  IF items = <<>> THEN <<>>
  ELSE ClaudePart(Head(items)) \o ClaudeParts(Tail(items))

\* ClaudeCodeParser._extract_text
ClaudeExtractText(content) ==
  CASE content.t = "str" -> [exc |-> "", content |-> content]
    [] content.t = "list" -> JoinValues(ClaudeParts(content.v))
    [] OTHER -> [exc |-> "", content |-> Str(<<>>)]

\* The body of the loop of ClaudeCodeParser.parse_session for one line.
ClaudeEntry(st, entry) ==
  IF entry.t = "garbage" THEN st
  ELSE IF entry.t # "dict" THEN [st EXCEPT !.exc = "AttributeError"]
  ELSE
    LET entry_type == Get(entry, "type", Str(<<>>))
        sid == Get(entry, "sessionId", Null)
        ts == Get(entry, "timestamp", Null)
        cwd == Get(entry, "cwd", Null)
        mdl == Get(entry, "model", Null)
        message == Get(entry, "message", EmptyDict)
        st1 == [st EXCEPT
                  !.session_id = IF Truthy(sid) /\ st.created_at = 0
                                 THEN Take(PyStr(sid), 8) ELSE @,
                  !.created_at = IF Truthy(ts) /\ st.created_at = 0
                                 THEN FromIso(ts) ELSE @,
                  !.working_dir = IF Truthy(cwd) THEN cwd ELSE @,
                  !.model = IF Truthy(mdl) THEN mdl ELSE @]
    IN IF message.t # "dict" THEN [st1 EXCEPT !.exc = "AttributeError"]
       ELSE
         LET msg_content == Get(message, "content", Null)
             x == ClaudeExtractText(msg_content)
             text == x.content.v
         IN IF IsStr(entry_type, "user") /\ Truthy(msg_content)
            THEN IF x.exc # "" THEN [st1 EXCEPT !.exc = x.exc]
                 ELSE IF text # <<>> /\ Head(text) # "<environment_context"
                 THEN Append1(st1, "USER", Str(text)) ELSE st1
            ELSE IF IsStr(entry_type, "assistant") /\ Truthy(msg_content)
            THEN IF x.exc # "" THEN [st1 EXCEPT !.exc = x.exc]
                 ELSE IF text # <<>>
                 THEN Append1(st1, "ASSISTANT", Str(text)) ELSE st1
            ELSE st1

\* The locals of a parse_session call before its loop: messages = [],
\* session_id = path.stem[:8], created_at = None, working_dir, model.
NewLocals(p) ==
  [session_id |-> Take(p.stem, 8), created_at |-> 0,
   working_dir |-> Str(<<>>), model |-> Str(<<>>),
   messages |-> <<>>, exc |-> ""]

\* ClaudeCodeParser.parse_session after its loop, with the locals st.
ClaudeReturn(p, f, lines, st) ==
  IF lines = <<>> THEN ReturnNone
  ELSE IF st.exc # "" THEN Raise(st.exc)
  ELSE ReturnIfMessages(st.messages,
         Session(st.session_id, "claude-code", st.messages,
                 IF st.created_at = 0 THEN f.mtime ELSE st.created_at,
                 st.working_dir, st.model, p, f.mtime))

\* ClaudeCodeParser.parse_session
ClaudeParseSession(p, f) ==
  IF ~f.readable THEN ReturnNone
  ELSE
    LET lines == SelectSeq(f.body, NotBlank) IN
    ClaudeReturn(p, f, lines, ForEach(ClaudeEntry, NewLocals(p), lines))

\* ---- lib/parsers/codex.py ----

\* The body of the loop of CodexParser.parse_session for one line.
CodexEntry(st, entry) ==
  IF entry.t = "garbage" THEN st
  ELSE IF entry.t # "dict" THEN [st EXCEPT !.exc = "AttributeError"]
  ELSE
    LET ts == Get(entry, "timestamp", Null)
        mdl == Get(entry, "model", Null)
        role == Get(entry, "role", Str(<<>>))
        content == Get(entry, "content", Str(<<>>))
        st1 == [st EXCEPT
                  !.created_at = IF Truthy(ts) /\ st.created_at = 0
                                 THEN FromIso(ts) ELSE @,
                  !.model = IF Truthy(mdl) THEN mdl ELSE @]
    IN IF IsStr(role, "user") /\ Truthy(content)
       THEN Append1(st1, "USER", content)
       ELSE IF IsStr(role, "assistant") /\ Truthy(content)
       THEN Append1(st1, "ASSISTANT", content)
       ELSE st1

\* CodexParser.parse_session after its loop, with the locals st.
CodexReturn(p, f, lines, st) ==
  IF lines = <<>> THEN ReturnNone
  ELSE IF st.exc # "" THEN Raise(st.exc)
  ELSE ReturnIfMessages(st.messages,
         Session(st.session_id, "codex", st.messages,
                 IF st.created_at = 0 THEN f.mtime ELSE st.created_at,
                 Null, st.model, p, f.mtime))

\* CodexParser.parse_session
CodexParseSession(p, f) ==
  IF ~f.readable THEN ReturnNone
  ELSE
    LET lines == SelectSeq(f.body, NotBlank) IN
    CodexReturn(p, f, lines, ForEach(CodexEntry, NewLocals(p), lines))

\* ---- lib/parsers/windsurf.py ----

\* BaseParser has no get_file_created_at: the call at the Session
\* constructor raises AttributeError.
get_file_created_at == Raise("AttributeError")

\* The first of the four keys with a truthy value, else data.get('turns', []).
WindsurfConversation(data) ==
  LET Try(key) == Get(data, key, List(<<>>)) IN
  IF Truthy(Try("messages")) THEN Try("messages")
  ELSE IF Truthy(Try("conversation")) THEN Try("conversation")
  ELSE IF Truthy(Try("history")) THEN Try("history")
  ELSE Try("turns")

\* item.get('text', str(item)) if isinstance(item, dict) else str(item)
WindsurfPart(item) ==
  IF item.t = "dict" THEN Get(item, "text", Str(PyStr(item)))
  ELSE Str(PyStr(item))

\* The body of the loop of WindsurfParser._extract_messages.
WindsurfMsg(acc, msg) ==
  IF msg.t # "dict" THEN acc
  ELSE
    LET r == Get(msg, "role", Get(msg, "type", Str(<<>>)))
        raw == Get(msg, "content", Get(msg, "text", Get(msg, "message", Str(<<>>))))
        x == IF raw.t = "list"
             THEN JoinValues([i \in DOMAIN raw.v |-> WindsurfPart(raw.v[i])])
             ELSE [exc |-> "", content |-> raw]
    IN IF r.t # "str" THEN [acc EXCEPT !.exc = "AttributeError"]
       ELSE IF x.exc # "" THEN [acc EXCEPT !.exc = x.exc]
       ELSE IF Lower(r.v) \in {<<"user">>, <<"human">>} /\ Truthy(x.content)
       THEN Append1(acc, "USER", x.content)
       ELSE IF /\ Lower(r.v) \in {<<"assistant">>, <<"ai">>, <<"model">>}
               /\ Truthy(x.content)
       THEN Append1(acc, "ASSISTANT", x.content)
       ELSE acc

\* WindsurfParser._extract_messages
WindsurfExtractMessages(acc, data) ==
  LET conversation == WindsurfConversation(data) IN
  IF ~Iterable(conversation) THEN [acc EXCEPT !.exc = "TypeError"]
  ELSE ForEach(WindsurfMsg, acc, Items(conversation))

WindsurfItem(acc, item) ==
  IF item.t = "dict" THEN WindsurfExtractMessages(acc, item) ELSE acc

\* WindsurfParser.parse_session
WindsurfParseSession(p, f) ==
  IF ~f.readable \/ f.body.t = "garbage" THEN ReturnNone
  ELSE
    LET data == f.body
        acc == CASE data.t = "list" -> ForEach(WindsurfItem, Acc(<<>>), data.v)
                 [] data.t = "dict" -> WindsurfExtractMessages(Acc(<<>>), data)
                 [] OTHER -> Acc(<<>>)
    IN IF acc.exc # "" THEN Raise(acc.exc)
       ELSE IF acc.messages = <<>> THEN ReturnNone
       ELSE get_file_created_at

\* ---- lib/parsers/continue_dev.py ----

RECURSIVE ContinueParts(_)
ContinueParts(items) ==
  IF items = <<>> THEN <<>>
  ELSE LET item == Head(items)
           text == Get(item, "text", Get(item, "content", Str(<<>>)))
       IN (IF item.t = "str" THEN <<item>>
           ELSE IF item.t = "dict" /\ Truthy(text) THEN <<text>>
           ELSE <<>>)
          \o ContinueParts(Tail(items))

\* The body of the loop of ContinueParser._extract_session_messages.
ContinueMsg(acc, msg) ==
  IF msg.t # "dict" THEN acc
  ELSE
    LET r == Get(msg, "role", Str(<<>>))
        raw == Get(msg, "content", Get(msg, "message", Str(<<>>)))
        x == IF raw.t = "list" THEN JoinValues(ContinueParts(raw.v))
             ELSE [exc |-> "", content |-> raw]
    IN IF r.t # "str" THEN [acc EXCEPT !.exc = "AttributeError"]
       ELSE IF x.exc # "" THEN [acc EXCEPT !.exc = x.exc]
       ELSE IF Lower(r.v) = <<"user">> /\ Truthy(x.content)
       THEN Append1(acc, "USER", x.content)
       ELSE IF Lower(r.v) = <<"assistant">> /\ Truthy(x.content)
       THEN Append1(acc, "ASSISTANT", x.content)
       ELSE acc

\* ContinueParser._extract_session_messages: history
ContinueHistory(session) ==
  Get(session, "history", Get(session, "messages", List(<<>>)))

\* ContinueParser._extract_session_messages
ContinueExtractSessionMessages(acc, session) ==
  IF session.t # "dict" THEN [acc EXCEPT !.exc = "AttributeError"]
  ELSE
    LET history == ContinueHistory(session) IN
    IF ~Iterable(history) THEN [acc EXCEPT !.exc = "TypeError"]
    ELSE ForEach(ContinueMsg, acc, Items(history))

\* The body of the loop over a list document: the messages of every item go
\* to the one list, the model is the first truthy one.
ContinueItem(acc, item) ==
  LET a == ContinueExtractSessionMessages(acc, item) IN
  IF a.exc # "" THEN a
  ELSE IF Truthy(Get(item, "model", Null)) /\ ~Truthy(a.model)
  THEN [a EXCEPT !.model = item.v["model"]]
  ELSE a

\* ContinueParser.parse_session
ContinueParseSession(p, f) ==
  IF ~f.readable \/ f.body.t = "garbage" THEN ReturnNone
  ELSE
    LET data == f.body
        acc0 == [messages |-> <<>>, exc |-> "", model |-> Str(<<>>)]
        acc == CASE data.t = "list" -> ForEach(ContinueItem, acc0, data.v)
                 [] data.t = "dict" ->
                      LET a == ContinueExtractSessionMessages(acc0, data) IN
                      IF a.exc # "" THEN a
                      ELSE [a EXCEPT !.model = Get(data, "model", Str(<<>>))]
                 [] OTHER -> acc0
    IN IF acc.exc # "" THEN Raise(acc.exc)
       ELSE ReturnIfMessages(acc.messages,
              Session(Take(p.stem, 8), "continue", acc.messages, f.mtime,
                      Null, acc.model, p, f.mtime))

\* ---- lib/parsers/cline.py ----

RECURSIVE ClineParts(_)
ClineParts(items) ==
  IF items = <<>> THEN <<>>
  ELSE LET item == Head(items) IN
       (IF item.t = "str" THEN <<item>>
        ELSE IF item.t = "dict" /\ Truthy(Get(item, "text", Null))
             THEN <<item.v["text"]>>
             ELSE <<>>)
       \o ClineParts(Tail(items))

\* The body of the loop of ClineParser._extract_messages.
ClineMsg(acc, msg) ==
  IF msg.t # "dict" THEN acc
  ELSE
    LET r == Get(msg, "role", Str(<<>>))
        raw == Get(msg, "content", Get(msg, "text", Str(<<>>)))
        x == IF raw.t = "list" THEN JoinValues(ClineParts(raw.v))
             ELSE [exc |-> "", content |-> raw]
    IN IF r.t # "str" THEN [acc EXCEPT !.exc = "AttributeError"]
       ELSE IF x.exc # "" THEN [acc EXCEPT !.exc = x.exc]
       ELSE IF Lower(r.v) \in {<<"user">>, <<"human">>} /\ Truthy(x.content)
       THEN Append1(acc, "USER", x.content)
       ELSE IF Lower(r.v) \in {<<"assistant">>, <<"ai">>} /\ Truthy(x.content)
       THEN Append1(acc, "ASSISTANT", x.content)
       ELSE acc

\* ClineParser._extract_messages: conversation
ClineConversation(task) ==
  Get(task, "messages", Get(task, "conversation", List(<<>>)))

\* ClineParser._extract_messages
ClineExtractMessages(acc, task) ==
  IF task.t # "dict" THEN [acc EXCEPT !.exc = "AttributeError"]
  ELSE
    LET conversation == ClineConversation(task) IN
    IF ~Iterable(conversation) THEN [acc EXCEPT !.exc = "TypeError"]
    ELSE ForEach(ClineMsg, acc, Items(conversation))

\* ClineParser.parse_session
ClineParseSession(p, f) ==
  IF ~f.readable \/ f.body.t = "garbage" THEN ReturnNone
  ELSE
    LET data == f.body
        acc == CASE data.t = "list" -> ForEach(ClineExtractMessages, Acc(<<>>), data.v)
                 [] data.t = "dict" -> ClineExtractMessages(Acc(<<>>), data)
                 [] OTHER -> Acc(<<>>)
        session_id == IF p.stem = <<"tasks">> /\ p.suffix = ".json"
                      THEN <<"cline">> ELSE Take(p.parent, 8)
    IN IF acc.exc # "" THEN Raise(acc.exc)
       ELSE ReturnIfMessages(acc.messages,
              Session(session_id, "cline", acc.messages, f.mtime,
                      Null, Null, p, f.mtime))

\* ---- lib/parsers/opencode.py ----

\* OpenCodeParser._parse_timestamp: the instant, or 0 for None.  A number
\* above 10^12 counts milliseconds and is divided by 1000.
OpenCodeParseTimestamp(ts) ==
  IF ~Truthy(ts) THEN 0
  ELSE CASE ts.t \in {"num", "bignum"} -> ts.v
         [] ts.t = "str" -> FromIso(ts)
         [] OTHER -> 0

RECURSIVE OpenCodeParts(_)
OpenCodeParts(items) ==
  IF items = <<>> THEN <<>>
  ELSE LET item == Head(items) IN
       (IF item.t = "str" THEN <<item>>
        ELSE IF item.t = "dict" /\ Truthy(Get(item, "text", Null))
             THEN <<item.v["text"]>>
             ELSE <<>>)
       \o OpenCodeParts(Tail(items))

\* MessageRole for a lowered role, "" where _extract_message appends nothing.
OpenCodeRole(role) ==
  CASE role = <<"user">> -> "USER"
    [] role \in {<<"assistant">>, <<"model">>, <<"ai">>} -> "ASSISTANT"
    [] role = <<"system">> -> "SYSTEM"
    [] role = <<"tool">> -> "TOOL"
    [] OTHER -> ""

\* OpenCodeParser._extract_message
OpenCodeExtractMessage(acc, entry) ==
  IF entry.t # "dict" THEN acc
  ELSE
    LET r == Get(entry, "role", Str(<<>>))
        raw == Get(entry, "content", Get(entry, "text", Str(<<>>)))
        x == IF raw.t = "list" THEN JoinValues(OpenCodeParts(raw.v))
             ELSE [exc |-> "", content |-> raw]
        timestamp == IF Truthy(Get(entry, "timestamp", Null))
                     THEN OpenCodeParseTimestamp(entry.v["timestamp"])
                     ELSE 0
    IN IF r.t # "str" THEN [acc EXCEPT !.exc = "AttributeError"]
       ELSE IF x.exc # "" THEN [acc EXCEPT !.exc = x.exc]
       ELSE IF ~Truthy(x.content) \/ OpenCodeRole(Lower(r.v)) = "" THEN acc
       ELSE [acc EXCEPT !.messages =
               acc.messages \o <<StampedMessage(OpenCodeRole(Lower(r.v)),
                                                x.content, timestamp)>>]

\* The body of the loop over the lines of a .jsonl file.
OpenCodeLine(acc, entry) ==
  IF entry.t = "garbage" THEN acc
  ELSE
    LET a == OpenCodeExtractMessage(acc, entry) IN
    IF a.exc # "" THEN a
    ELSE IF entry.t # "dict" THEN [a EXCEPT !.exc = "AttributeError"]
    ELSE
      LET b == IF Truthy(Get(entry, "model", Null))
               THEN [a EXCEPT !.model = entry.v["model"]] ELSE a
      IN IF Truthy(Get(entry, "timestamp", Null)) /\ b.created_at = 0
         THEN [b EXCEPT !.created_at = OpenCodeParseTimestamp(entry.v["timestamp"])]
         ELSE b

\* The body of the loop over a top-level array.
OpenCodeItem(acc, entry) ==
  LET a == OpenCodeExtractMessage(acc, entry) IN
  IF a.exc # "" THEN a
  ELSE IF entry.t # "dict" THEN [a EXCEPT !.exc = "AttributeError"]
  ELSE IF Truthy(Get(entry, "model", Null))
       THEN [a EXCEPT !.model = entry.v["model"]] ELSE a

\* x or y
Or(x, y) == IF Truthy(x) THEN x ELSE y

\* The message array of a document: messages, conversation, history.
OpenCodeConversation(data) ==
  Or(Get(data, "messages", List(<<>>)),
     Or(Get(data, "conversation", List(<<>>)),
        Get(data, "history", List(<<>>))))

\* The branch of parse_session for a document that is a dict.
OpenCodeDocument(acc, data) ==
  LET conversation == OpenCodeConversation(data)
      a == IF ~Iterable(conversation) THEN [acc EXCEPT !.exc = "TypeError"]
           ELSE ForEach(OpenCodeExtractMessage, acc, Items(conversation))
      created_at ==
        IF Truthy(Get(data, "created_at", Null))
        THEN OpenCodeParseTimestamp(data.v["created_at"])
        ELSE IF Truthy(Get(data, "timestamp", Null))
        THEN OpenCodeParseTimestamp(data.v["timestamp"])
        ELSE 0
  IN IF a.exc # "" THEN a
     ELSE [a EXCEPT !.model = Get(data, "model", Str(<<>>)),
                    !.working_dir = Get(data, "cwd",
                                        Get(data, "working_dir", Str(<<>>))),
                    !.created_at = created_at]

\* OpenCodeParser.parse_session.  The body of a .jsonl file is its sequence
\* of non-blank lines, that of any other file one JSON document.
OpenCodeParseSession(p, f) ==
  IF ~f.readable THEN ReturnNone
  ELSE
    LET acc0 == [messages |-> <<>>, exc |-> "", model |-> Str(<<>>),
                 working_dir |-> Str(<<>>), created_at |-> 0]
        data == f.body
        acc == IF p.suffix = ".jsonl" THEN ForEach(OpenCodeLine, acc0, SelectSeq(data, NotBlank))
               ELSE CASE data.t = "list" -> ForEach(OpenCodeItem, acc0, data.v)
                      [] data.t = "dict" -> OpenCodeDocument(acc0, data)
                      [] OTHER -> acc0
    IN IF p.suffix # ".jsonl" /\ data.t = "garbage" THEN ReturnNone
       ELSE IF acc.exc # "" THEN Raise(acc.exc)
       ELSE ReturnIfMessages(acc.messages,
              Session(Take(p.stem, 8), "opencode", acc.messages,
                      IF acc.created_at = 0 THEN f.mtime ELSE acc.created_at,
                      acc.working_dir, acc.model, p, f.mtime))

\* BaseParser.parse_session, dispatched on the adapter.
ParseSession(prov, p, f) ==
  CASE prov = "claude-code" -> ClaudeParseSession(p, f)
    [] prov = "codex" -> CodexParseSession(p, f)
    [] prov = "windsurf" -> WindsurfParseSession(p, f)
    [] prov = "continue" -> ContinueParseSession(p, f)
    [] prov = "cline" -> ClineParseSession(p, f)
    [] prov = "opencode" -> OpenCodeParseSession(p, f)

\* ------------------------------------------------------------------------
\* Files and locations
\* ------------------------------------------------------------------------

\* Longest NDJSON file, in lines.
MaxLines == 3
\* Longest message list of a conversation in a JSON document.
MaxMsgs == 2
\* Longest top-level array of a JSON document.
MaxConvs == 2

Providers == {"claude-code", "codex", "windsurf", "continue", "cline"}

\* pathlib.Path: path.parent.name, path.stem and path.suffix.
LongStem == [parent |-> <<"sessions">>, stem |-> <<"0a1b2c3d", "-e5f6">>,
             suffix |-> ".json"]
History == [parent |-> <<"continue">>, stem |-> <<"history">>,
            suffix |-> ".json"]
Tasks == [parent |-> <<"tasks">>, stem |-> <<"tasks">>, suffix |-> ".json"]
TaskDir == [parent |-> <<"task-001", "-full">>, stem |-> <<"conversa", "tion">>,
            suffix |-> ".json"]
Paths == {LongStem, History, Tasks, TaskDir}

ISO1 == "2024-01-01T00:00:01Z"
ISO2 == "2024-01-01T00:00:02Z"

\* Lines of a Claude Code transcript.
ClaudeTurn(type, message) == Dict("type" :> Str(<<type>>) @@ "message" :> message)
Content(c) == Dict("content" :> c)
TextBlock(text) == Dict("type" :> Str(<<"text">>) @@ "text" :> text)
ClaudeMeta ==
  Dict("type" :> Str(<<"summary">>) @@ "sessionId" :> Str(<<"sess-123", "4567">>)
       @@ "timestamp" :> Str(<<ISO1>>) @@ "cwd" :> Str(<<"/tmp">>))
ClaudeLines ==
  { Garbage, Blank, Num, ClaudeMeta,
    Dict("timestamp" :> Str(<<ISO2>>)),
    ClaudeTurn("user", Content(Str(<<VAL>>))),
    ClaudeTurn("user", Content(Str(<<" ">>))),
    ClaudeTurn("user", Content(Str(<<"<environment_context", VAL>>))),
    ClaudeTurn("assistant", Content(List(<<TextBlock(Str(<<KW>>)), Str(<<SK>>)>>))),
    ClaudeTurn("assistant", Content(List(<<TextBlock(Num)>>))),
    ClaudeTurn("user", Str(<<VAL>>)) }

\* Lines of a Codex transcript.
CodexTurn(role, content) == Dict("role" :> role @@ "content" :> content)
CodexLines ==
  { Garbage, Blank, Null, List(<<>>),
    Dict("timestamp" :> Str(<<ISO1>>) @@ "model" :> Str(<<"o3">>)),
    CodexTurn(Str(<<"user">>), Str(<<VAL>>)),
    CodexTurn(Str(<<"user">>), Str(<<" ">>)),
    CodexTurn(Str(<<"user">>), Str(<<>>)),
    CodexTurn(Str(<<"assistant">>), Str(<<SK>>)),
    CodexTurn(Str(<<"system">>), Str(<<VAL>>)),
    CodexTurn(Num, Str(<<VAL>>)) }

\* Entries of a message list in a JSON document.
Msg(role, content) == Dict("role" :> role @@ "content" :> content)
Msgs ==
  { Msg(Str(<<"user">>), Str(<<VAL>>)),
    Msg(Str(<<"Assistant">>), Str(<<SK>>)),
    Msg(Str(<<"user">>), Str(<<" ">>)),
    Msg(Str(<<"human">>), List(<<Str(<<KW>>), Dict("text" :> Str(<<VAL>>))>>)),
    Msg(Num, Str(<<VAL>>)),
    Dict("type" :> Str(<<"ai">>) @@ "text" :> Str(<<VAL>>)),
    Num }

Conv(key, msgs) == Dict(key :> msgs)
ConvKeys == {"messages", "history", "conversation"}

\* Conversations of a top-level array: one message each.
ListItems ==
  {Conv("messages", List(<<m>>)) : m \in Msgs}
  \cup { Conv("history", List(<<Msg(Str(<<"user">>), Str(<<VAL>>))>>)),
         Dict("model" :> Str(<<"gpt-4">>) @@
              "messages" :> List(<<Msg(Str(<<"assistant">>), Str(<<VAL>>))>>)),
         EmptyDict, Num }

\* JSON documents.
Docs ==
  {Garbage, Num}
  \cup {Conv(key, List(ms)) :
          key \in ConvKeys, ms \in UNION {[1..n -> Msgs] : n \in 0..MaxMsgs}}
  \cup {Conv("messages", Num), Conv("messages", Null)}
  \cup {List(items) : items \in UNION {[1..n -> ListItems] : n \in 0..MaxConvs}}

Bodies(prov) ==
  CASE prov = "claude-code" -> UNION {[1..n -> ClaudeLines] : n \in 0..MaxLines}
    [] prov = "codex" -> UNION {[1..n -> CodexLines] : n \in 0..MaxLines}
    [] OTHER -> Docs

\* A file: whether read_text succeeds, st_mtime, and what it holds.
Files(prov) ==
  {[readable |-> TRUE, mtime |-> 7, body |-> b] : b \in Bodies(prov)}
  \cup {[readable |-> FALSE, mtime |-> 7, body |-> Garbage]}

NoFile == [readable |-> FALSE, mtime |-> 0, body |-> Garbage]
NotCalled == [kind |-> "idle", exc |-> "", session |-> NoSession]

\* The locations an adapter's get_session_paths can return.
PathsOf(prov) ==
  CASE prov = "cline" -> {Tasks, TaskDir}
    [] prov = "continue" -> {History, LongStem}
    [] OTHER -> {LongStem}

\* ------------------------------------------------------------------------
\* The redactor as a state machine
\* ------------------------------------------------------------------------

NoCall == [op |-> "none", text |-> <<>>, out |-> <<>>, result |-> EmptyResult]

\* The other components, not in use.
ParserIdle ==
  /\ provider = "none"
  /\ path = NoPath
  /\ file = NoFile
  /\ result = NotCalled

SweepIdle ==
  /\ fs = <<>>
  /\ discovered = <<>>
  /\ idx = 0
  /\ yielded = <<>>
  /\ pc = "idle"

OutputIdle ==
  /\ output = "none"
  /\ redactFlag = TRUE
  /\ written = NoSession
  /\ store = <<>>

RedactorIdle ==
  /\ constructed = "none"
  /\ patterns = <<>>
  /\ compiled = <<>>
  /\ call = NoCall
  /\ redactCalls = <<>>

\* No entry met yet.
NoRole == [role |-> "", out |-> "idle"]
RoleIdle == roleCall = NoRole

\* No document looked at yet.
NoKey == [out |-> "idle", conversation |-> Null]
KeysIdle == keyCall = NoKey

\* No call made: no locals.
NoLocals ==
  [session_id |-> <<>>, created_at |-> 0, working_dir |-> Null,
   model |-> Null, messages |-> <<>>, exc |-> ""]
CallsIdle ==
  /\ frames = <<>>
  /\ last = NoLocals

\* No home directory looked at yet.
NotAsked == [exc |-> "idle", paths |-> <<>>]
DiscoverIdle ==
  /\ disk = <<>>
  /\ found = NotAsked
  /\ syncIdx = 0
  /\ swept = <<>>
  /\ syncpc = "idle"

\* No find_files call made yet.
FindIdle ==
  /\ searched = <<>>
  /\ pending = <<>>
  /\ results = <<>>
  /\ skipped = <<>>
  /\ findpc = "idle"

\* No write_sessions call made yet.
NoTally == [found |-> 0, synced |-> 0, skipped |-> 0, failed |-> 0, errors |-> <<>>]
NoTarget == [kind |-> "none", redact |-> TRUE]
WriterIdle ==
  /\ target = NoTarget
  /\ batch = <<>>
  /\ asParsed = <<>>
  /\ persisted = <<>>
  /\ cache = <<>>
  /\ tally = NoTally
  /\ faults = <<>>
  /\ runs = <<>>
  /\ wpos = 0
  /\ wpc = "idle"

InitRedactor ==
  /\ RedactorIdle
  /\ ParserIdle
  /\ SweepIdle
  /\ OutputIdle
  /\ RoleIdle
  /\ KeysIdle
  /\ FindIdle
  /\ CallsIdle
  /\ DiscoverIdle
  /\ WriterIdle

\* SecretRedactor.__init__(custom_patterns)
SecretRedactorInit(custom) ==
  /\ constructed = "none"
  /\ patterns' = SECRET_PATTERNS \o custom
  /\ LET c == CompileAll(SECRET_PATTERNS \o custom) IN
       /\ compiled' = c.compiled
       /\ constructed' = IF c.raised THEN "raised" ELSE "ready"
  /\ UNCHANGED <<call, redactCalls, notRedactor>>

\* SecretRedactor.redact(text).  A behaviour makes one call on the instance.
Redact(text) ==
  /\ constructed = "ready"
  /\ call.op = "none"
  /\ LET r == redact(compiled, text) IN
       call' = [op |-> "redact", text |-> text, out |-> r.text,
                result |-> r.result]
  /\ UNCHANGED <<constructed, patterns, compiled, redactCalls, notRedactor>>

\* SecretRedactor.redact_simple(text)
RedactSimple(text) ==
  /\ constructed = "ready"
  /\ call.op = "none"
  /\ call' = [op |-> "redact_simple", text |-> text,
              out |-> redact_simple(compiled, text), result |-> EmptyResult]
  /\ UNCHANGED <<constructed, patterns, compiled, redactCalls, notRedactor>>

NextRedactor ==
  \/ \E custom \in CustomChoices : SecretRedactorInit(custom)
  \/ \E text \in Texts : Redact(text)
  \/ \E text \in Texts : RedactSimple(text)

SpecRedactor == InitRedactor /\ [][NextRedactor]_vars

\* C25: for every text, redact and redact_simple of one instance return the
\* same redacted text, and with the default patterns it is the text that
\* redact_secrets returns; redact returns the report besides.
C25_SameRedactedText ==
  /\ call.op = "redact" =>
       /\ call.out = redact_simple(compiled, call.text)
       /\ patterns = SECRET_PATTERNS => call.out = redact_secrets(call.text)
       /\ call.result.redacted_length = TextLen(call.out)
  /\ call.op = "redact_simple" =>
       /\ call.out = redact(compiled, call.text).text
       /\ patterns = SECRET_PATTERNS => call.out = redact_secrets(call.text)

\* C25, its case: a redact call with the default patterns that replaced a
\* secret which is not at the start of the text.
C25_RedactReplaced ==
  /\ call.op = "redact"
  /\ patterns = SECRET_PATTERNS
  /\ call.out # call.text
  /\ call.result.redactions_count > 0
  /\ Head(call.out) = Head(call.text)

\* ------------------------------------------------------------------------
\* Several calls on one SecretRedactor
\* ------------------------------------------------------------------------

\* Texts handed in more than once: empty, clean, a vendor key, a key behind
\* the generic keyword, a custom secret.
RepeatTexts == {<<>>, <<" ">>, <<SK>>, <<KW, "=", SK>>, <<KW, "=", VAL>>, <<CORP>>}

\* A call that uses up the first pattern of the instance.
DropFirst(comp, text) == IF comp = <<>> THEN comp ELSE Tail(comp)

\* self._compiled after a call on text: redact and redact_simple read
\* self._compiled and assign no attribute.
AfterCall(comp, text) == comp

Called(op, text, out, res) ==
  /\ constructed = "ready"
  /\ Len(redactCalls) < MaxRedactCalls
  /\ call' = [op |-> op, text |-> text, out |-> out, result |-> res]
  /\ redactCalls' = Append(redactCalls, call')
  /\ compiled' = AfterCall(compiled, text)
  /\ UNCHANGED <<constructed, patterns, notRedactor>>

\* SecretRedactor.redact(text), once more
RedactCall(text) ==
  LET r == redact(compiled, text) IN Called("redact", text, r.text, r.result)

\* SecretRedactor.redact_simple(text), once more
RedactSimpleCall(text) ==
  Called("redact_simple", text, redact_simple(compiled, text), EmptyResult)

InitHistory == InitRedactor

NextHistory ==
  \/ \E custom \in CustomChoices : SecretRedactorInit(custom)
  \/ \E text \in RepeatTexts : RedactCall(text)
  \/ \E text \in RepeatTexts : RedactSimpleCall(text)

SpecHistory == InitHistory /\ [][NextHistory]_vars

InitParse ==
  /\ provider \in Providers
  /\ path \in PathsOf(provider)
  /\ file \in Files(provider)
  /\ result = NotCalled
  /\ RedactorIdle
  /\ SweepIdle
  /\ OutputIdle
  /\ RoleIdle
  /\ KeysIdle
  /\ FindIdle
  /\ CallsIdle
  /\ DiscoverIdle
  /\ WriterIdle

\* parser.parse_session(path)
ParseSessionCall ==
  /\ result.kind = "idle"
  /\ result' = ParseSession(provider, path, file)
  /\ UNCHANGED <<provider, path, file, notParse>>

NextParse == ParseSessionCall

SpecParse == InitParse /\ [][NextParse]_vars

\* ------------------------------------------------------------------------
\* Properties of parse_session
\* ------------------------------------------------------------------------

\* C1: parse_session never raises, whatever the file holds.
C1_NeverRaises == result.kind # "raise"

\* A readable Claude Code transcript of session-metadata events only.
OnlyMetadata ==
  /\ provider = "claude-code"
  /\ file.readable
  /\ file.body # <<>>
  /\ \A i \in DOMAIN file.body : file.body[i] = ClaudeMeta

C5_NoBlankContent ==
  result.kind = "session" =>
    \A i \in DOMAIN result.session.messages :
      LET content == result.session.messages[i].content IN
        content.t = "str" /\ Strip(content.v) # <<>>

\* The messages one conversation of a container file holds.
ConversationMessages(prov, item) ==
  IF prov = "continue" THEN ContinueExtractSessionMessages(Acc(<<>>), item)
  ELSE ClineExtractMessages(Acc(<<>>), item)

\* A container file: a top-level array of N >= 1 conversations, each with
\* at least one user or assistant message.
IsContainer ==
  /\ provider \in {"continue", "cline"}
  /\ file.readable
  /\ file.body.t = "list"
  /\ file.body.v # <<>>
  /\ \A i \in DOMAIN file.body.v :
       LET a == ConversationMessages(provider, file.body.v[i]) IN
         a.exc = "" /\ a.messages # <<>>

\* The Sessions one parse_session call hands back.
Yielded(r) == IF r.kind = "session" THEN <<r.session>> ELSE <<>>

\* C10: a container file of N conversations yields N Sessions, the i-th
\* with the messages of the i-th conversation, under pairwise distinct ids.
C10_OneSessionPerConversation ==
  (result.kind # "idle" /\ IsContainer) =>
    LET ys == Yielded(result) IN
      /\ Len(ys) = Len(file.body.v)
      /\ \A i \in DOMAIN ys :
           ys[i].messages = ConversationMessages(provider, file.body.v[i]).messages
      /\ \A i, j \in DOMAIN ys : i # j => ys[i].id # ys[j].id

\* The session ids the events of a Claude Code transcript carry: the first
\* 8 characters of each truthy sessionId.
SessionIds(f) ==
  {Take(PyStr(f.body[i].v["sessionId"]), 8) :
     i \in {j \in DOMAIN f.body :
              /\ f.body[j].t = "dict"
              /\ Truthy(Get(f.body[j], "sessionId", Null))}}

\* C20: the id of a Session read from a Claude Code transcript is the first
\* 8 characters of a sessionId of the file when any event carries one,
\* wherever that event stands relative to the first event with a timestamp,
\* and the first 8 characters of the file name only when none does.
C20_SessionIdFromFile ==
  (provider = "claude-code" /\ result.kind = "session") =>
    IF SessionIds(file) # {}
    THEN result.session.id \in SessionIds(file)
    ELSE result.session.id = Take(path.stem, 8)

\* The part of C20 the adapter keeps: a sessionId that stands no later than
\* the first event with a parseable timestamp gives the id, and so does the
\* file name when no event carries a sessionId.
SessionIdBeforeTimestamp ==
  (provider = "claude-code" /\ result.kind = "session") =>
    LET Dated(j) == /\ file.body[j].t = "dict"
                    /\ FromIso(Get(file.body[j], "timestamp", Null)) # 0
        early == {i \in DOMAIN file.body :
                    /\ file.body[i].t = "dict"
                    /\ Truthy(Get(file.body[i], "sessionId", Null))
                    /\ \A j \in 1..(i - 1) : ~Dated(j)}
    IN IF early # {}
       THEN result.session.id \in SessionIds(file)
       ELSE result.session.id = Take(path.stem, 8)

\* ------------------------------------------------------------------------
\* Flattening a list of content blocks (lib/parsers/claude.py)
\* ------------------------------------------------------------------------

\* Most blocks in the content list of a turn.
MaxBlocks == 2

\* Runs of 484 and of 500 characters.
X484 == "x * 484"
X500 == "x * 500"

ToolUse(name, input) ==
  Dict("type" :> Str(<<"tool_use">>) @@ "name" :> Str(<<name>>) @@ "input" :> input)
ToolResult(content) ==
  Dict("type" :> Str(<<"tool_result">>) @@ "content" :> content)
Command(text) == Dict("command" :> Str(text))

\* Content blocks: strings, text blocks, tool calls with short, long, empty
\* and no arguments, tool results short, long and empty, and other blocks.
Blocks ==
  { Str(<<VAL>>), TextBlock(Str(<<KW>>)), TextBlock(Str(<<>>)),
    ToolUse("grep", Command(<<"grep -r TODO">>)),
    ToolUse("grep", Command(<<X484, VAL>>)),
    ToolUse("grep", Str(<<X500, VAL>>)),
    ToolUse("grep", EmptyDict),
    Dict("type" :> Str(<<"tool_use">>)),
    ToolResult(Str(<<VAL>>)),
    ToolResult(Str(<<X500, X500, VAL>>)),
    ToolResult(Str(<<>>)),
    Dict("type" :> Str(<<"image">>) @@ "text" :> Str(<<VAL>>)),
    Num }

BlockLists == UNION {[1..n -> Blocks] : n \in 0..MaxBlocks}

\* A transcript of one assistant turn with the content given.
BlockFiles ==
  {[readable |-> TRUE, mtime |-> 7,
    body |-> <<ClaudeTurn("assistant", Content(List(bs)))>>] : bs \in BlockLists}

InitBlocks ==
  /\ provider = "claude-code"
  /\ path = LongStem
  /\ file \in BlockFiles
  /\ result = NotCalled
  /\ RedactorIdle
  /\ SweepIdle
  /\ OutputIdle
  /\ RoleIdle
  /\ KeysIdle
  /\ FindIdle
  /\ DiscoverIdle
  /\ WriterIdle
  /\ CallsIdle

NextBlocks == ParseSessionCall

SpecBlocks == InitBlocks /\ [][NextBlocks]_vars

\* The longest prefix of the text s that has at most n characters.
AtMost(s, n) ==
  LET fits == {k \in 0..Len(s) : TextLen(SubSeq(s, 1, k)) <= n}
  IN SubSeq(s, 1, CHOOSE k \in fits : \A j \in fits : j <= k)

\* The blocks of the turn of a file.
BlocksOf(f) == f.body[1].v["message"].v["content"].v

\* The dump of a tool's arguments: pretty-printed when they are an object.
ArgumentDump(input) ==
  IF input.t = "dict" THEN JsonDumps(input) ELSE PyStr(input)

\* What a block renders as: the texts it gives, in order.
Rendering(b) ==
  LET type == IF b.t = "dict" THEN Get(b, "type", Null) ELSE Null IN
  CASE b.t = "str" -> <<b.v>>
    [] IsStr(type, "text") ->
         IF Get(b, "text", Str(<<>>)).v = <<>> THEN <<>> ELSE <<b.v["text"].v>>
    [] IsStr(type, "tool_use") ->
         <<<<ToolMark>> \o Get(b, "name", Str(<<"tool">>)).v \o <<"**">>>>
         \o (IF Truthy(Get(b, "input", Null))
             THEN << <<FenceOpen>>
                     \o AtMost(ArgumentDump(b.v["input"]), InputLimit)
                     \o <<FenceClose>> >>
             ELSE <<>>)
    [] IsStr(type, "tool_result") ->
         IF Truthy(Get(b, "content", Null))
         THEN << <<ResultMark>> \o AtMost(PyStr(b.v["content"]), ResultLimit)
                 \o <<FenceClose>> >>
         ELSE <<>>
    [] OTHER -> <<>>

RECURSIVE Renderings(_)
Renderings(bs) ==
  IF bs = <<>> THEN <<>> ELSE Rendering(Head(bs)) \o Renderings(Tail(bs))

\* C23: the text of a turn whose content is a list of blocks is the
\* renderings of the blocks in source order, joined by a blank line: a string
\* verbatim, a text block its text, a tool_use block a line naming the tool
\* and a fenced dump of its arguments cut to 500 characters, a tool_result
\* block a fenced dump of the result cut to 1000 characters, nothing for any
\* other block; a turn whose blocks render to nothing gives no message.
C23_BlocksFlattened ==
  (provider = "claude-code" /\ file \in BlockFiles /\ result # NotCalled) =>
    LET text == Join(Renderings(BlocksOf(file))) IN
    IF text = <<>> THEN result = ReturnNone
    ELSE /\ result.kind = "session"
         /\ result.session.messages = <<Message("ASSISTANT", Str(text))>>

\* C23, its case: a tool call whose arguments were cut, next to a text block.
C23_ToolBlockCut ==
  /\ result.kind = "session"
  /\ file \in BlockFiles
  /\ BlocksOf(file) = <<TextBlock(Str(<<KW>>)), ToolUse("grep", Command(<<X484, VAL>>))>>
  /\ result.session.messages[1].content.v =
       <<KW, "\n\n", ToolMark, "grep", "**", "\n\n",
         FenceOpen, "{", "\n  \"", "command", "\": \"", X484, FenceClose>>

\* ------------------------------------------------------------------------
\* An event log of a metadata event and turn events (lib/parsers/claude.py)
\* ------------------------------------------------------------------------

\* Most lines of an event log.
MaxEvents == 3

FIX == Str(<<"fix the bug">>)
DONE == Str(<<"done">>)
PROJ == Str(<<"/tmp/proj">>)

\* A text block that carries the role of its speaker.
RoleBlock(role, text) == Dict("type" :> Str(<<"text">>) @@ "role" :> Str(<<role>>) @@ "text" :> text)

\* The session-metadata event: no message, the working directory.
ProjMeta == Dict("type" :> Str(<<"session_meta">>) @@ "cwd" :> PROJ)

\* One event per speaker.
UserEvent == ClaudeTurn("user", Content(List(<<TextBlock(FIX)>>)))
AssistantEvent == ClaudeTurn("assistant", Content(List(<<TextBlock(DONE)>>)))

\* One event that holds the user's block followed by the assistant's.
BothBlocks == List(<<RoleBlock("user", FIX), RoleBlock("assistant", DONE)>>)
TurnEvents ==
  { ClaudeTurn("turn", Content(BothBlocks)),
    ClaudeTurn("user", Content(BothBlocks)),
    ClaudeTurn("assistant", Content(BothBlocks)) }

EventLines == {ProjMeta, UserEvent, AssistantEvent} \cup TurnEvents

EventFiles ==
  {[readable |-> TRUE, mtime |-> 7, body |-> b] :
     b \in UNION {[1..n -> EventLines] : n \in 1..MaxEvents}}

InitEvents ==
  /\ provider = "claude-code"
  /\ path = LongStem
  /\ file \in EventFiles
  /\ result = NotCalled
  /\ RedactorIdle
  /\ SweepIdle
  /\ OutputIdle
  /\ RoleIdle
  /\ KeysIdle
  /\ FindIdle
  /\ DiscoverIdle
  /\ WriterIdle
  /\ CallsIdle

NextEvents == ParseSessionCall

SpecEvents == InitEvents /\ [][NextEvents]_vars

\* What the scenario expects of the parse.
ScenarioResult ==
  /\ result.kind = "session"
  /\ result.session.working_dir = PROJ
  /\ result.session.messages = <<Message("USER", FIX), Message("ASSISTANT", DONE)>>
  /\ result.session.source_mtime = file.mtime

\* C24: the log of two lines, the metadata event with /tmp/proj and a turn
\* event with the user's text block "fix the bug" followed by the
\* assistant's text block "done", parses to one Session with working_dir
\* /tmp/proj and the messages USER "fix the bug", ASSISTANT "done".
C24_ScenarioParsed ==
  (result # NotCalled /\ Len(file.body) = 2 /\ file.body[1] = ProjMeta
     /\ file.body[2] \in TurnEvents) => ScenarioResult

\* What holds instead: a line gives at most one message, with the role of
\* the event and the blocks of the event joined, so the log of the metadata
\* event and one turn event never gives two messages; the log that has one
\* event per speaker gives the result of the scenario.
OneMessagePerEvent ==
  /\ result.kind = "session" =>
       /\ Len(result.session.messages) <= Len(file.body)
       /\ file.body[1] = ProjMeta => Len(result.session.messages) < Len(file.body)
  /\ (result # NotCalled /\ file.body = <<ProjMeta, UserEvent, AssistantEvent>>)
       => ScenarioResult

\* ------------------------------------------------------------------------
\* redact_simple on its own output
\* ------------------------------------------------------------------------

\* Texts that may hold an SSH public key: the key type, a keyword, a value
\* and the delimiters, no two words adjacent; long enough for an
\* assignment of a key (keyword, sign, key type, blank, body).
KeyTexts ==
  {t \in UNION {[1..n -> {RSA, KW, VAL, "=", " "}] : n \in 0..(MaxTextLen + 1)} :
     \A i \in 1..(Len(t) - 1) : ~(t[i] \in {RSA, KW, VAL} /\ t[i + 1] \in {RSA, KW, VAL})}

\* SecretRedactor.redact_simple on the text the last call returned.
RedactSimpleAgain ==
  /\ redactCalls # <<>>
  /\ Called("redact_simple", call.out, redact_simple(compiled, call.out), EmptyResult)

\* SecretRedactor.redact_simple(text), the first call on the instance.
RedactSimpleFirst(text) ==
  /\ redactCalls = <<>>
  /\ RedactSimpleCall(text)

InitTwice == InitRedactor

NextTwice ==
  \/ \E custom \in CustomChoices : SecretRedactorInit(custom)
  \/ \E text \in KeyTexts : RedactSimpleFirst(text)
  \/ RedactSimpleAgain

SpecTwice == InitTwice /\ [][NextTwice]_vars

\* C29: redact_simple applied to its own output returns it unchanged.
C29_RedactSimpleIdempotent ==
  \A i \in DOMAIN redactCalls :
    (i > 1 /\ redactCalls[i].text = redactCalls[i - 1].out) =>
      redactCalls[i].out = redactCalls[i].text

\* What holds instead: the output of a second pass is stable, and so is the
\* output of a first pass on a text without the start of an SSH key.
StableAfterTwo ==
  \A i \in DOMAIN redactCalls :
    (i > 1 /\ redactCalls[i].text = redactCalls[i - 1].out) =>
      \/ redactCalls[i].out = redactCalls[i].text
      \/ i = 2 /\ \E k \in DOMAIN redactCalls[1].text : redactCalls[1].text[k] = RSA

\* ------------------------------------------------------------------------
\* The message array an adapter reads from a document that is a dict
\* ------------------------------------------------------------------------

\* CursorParser.parse_session: raw_messages
CursorRawMessages(data) ==
  Get(data, "messages", Get(data, "conversation", List(<<>>)))

\* CopilotParser._extract_messages: turns
CopilotTurns(data) ==
  Get(data, "turns",
      Get(data, "messages", Get(data, "conversation", List(<<>>))))

\* RooCodeParser._extract_messages: conversation
RooConversation(data) ==
  Get(data, "messages", Get(data, "conversation", List(<<>>)))

\* ZedAIParser._extract_messages: conversation
ZedConversation(data) ==
  Get(data, "messages",
      Get(data, "conversation", Get(data, "history", List(<<>>))))

\* AmpParser._extract_messages: the first of its keys with a truthy value,
\* else data.get('history', []).
AmpConversation(data) ==
  LET Try(key) == Get(data, key, List(<<>>)) IN
  IF Truthy(Try("messages")) THEN Try("messages")
  ELSE IF Truthy(Try("interactions")) THEN Try("interactions")
  ELSE IF Truthy(Try("conversation")) THEN Try("conversation")
  ELSE Try("history")

\* OpenRouterParser.parse_session: conversation of a dict document
OpenRouterConversation(data) ==
  Or(Get(data, "messages", List(<<>>)),
     Or(Get(data, "conversation", List(<<>>)),
        Or(Get(data, "history", List(<<>>)), Get(data, "chat", List(<<>>)))))

\* The adapters that read one JSON document and look for its message array
\* under several keys.
KeyAdapters ==
  {"cursor", "cline", "continue", "copilot", "roo-code", "windsurf",
   "zed-ai", "amp", "opencode", "openrouter"}

\* The message array the adapter iterates over for the document data.
ConversationOf(prov, data) ==
  CASE prov = "cursor" -> CursorRawMessages(data)
    [] prov = "cline" -> ClineConversation(data)
    [] prov = "continue" -> ContinueHistory(data)
    [] prov = "copilot" -> CopilotTurns(data)
    [] prov = "roo-code" -> RooConversation(data)
    [] prov = "windsurf" -> WindsurfConversation(data)
    [] prov = "zed-ai" -> ZedConversation(data)
    [] prov = "amp" -> AmpConversation(data)
    [] prov = "opencode" -> OpenCodeConversation(data)
    [] prov = "openrouter" -> OpenRouterConversation(data)

\* The keys among messages, conversation, history, turns an adapter reads.
Accepts(prov) ==
  CASE prov \in {"cursor", "cline", "roo-code"} -> {"messages", "conversation"}
    [] prov = "continue" -> {"messages", "history"}
    [] prov = "copilot" -> {"messages", "conversation", "turns"}
    [] prov = "windsurf" -> {"messages", "conversation", "history", "turns"}
    [] prov \in {"zed-ai", "amp", "opencode", "openrouter"} ->
         {"messages", "conversation", "history"}

CandidateKeys == <<"messages", "conversation", "history", "turns">>

\* Documents: each candidate key is absent, holds an empty array, or holds
\* an array with one entry that names the key.
KeyEntry(key) == Dict("role" :> Str(<<"user">>) @@ "content" :> Str(<<key>>))
KeyValues(key) == {Null, List(<<>>), List(<<KeyEntry(key)>>)}
KeyDoc(m, c, h, t) ==
  LET Field(key, v) == IF v = Null THEN <<>> ELSE key :> v IN
  Dict(Field("messages", m) @@ Field("conversation", c)
       @@ Field("history", h) @@ Field("turns", t))
KeyDocs ==
  {KeyDoc(m, c, h, t) :
     m \in KeyValues("messages"), c \in KeyValues("conversation"),
     h \in KeyValues("history"), t \in KeyValues("turns")}

InitKeys ==
  /\ provider \in KeyAdapters
  /\ path = LongStem
  /\ file \in {[readable |-> TRUE, mtime |-> 7, body |-> d] : d \in KeyDocs}
  /\ result = NotCalled
  /\ keyCall = NoKey
  /\ FindIdle
  /\ RoleIdle
  /\ CallsIdle
  /\ DiscoverIdle
  /\ WriterIdle
  /\ RedactorIdle
  /\ SweepIdle
  /\ OutputIdle

\* The adapter looks for the message array of the document.
ExtractMessagesCall ==
  /\ keyCall = NoKey
  /\ keyCall' = [out |-> "done", conversation |-> ConversationOf(provider, file.body)]
  /\ UNCHANGED notKeys

NextKeys == ExtractMessagesCall

SpecKeys == InitKeys /\ [][NextKeys]_vars

RECURSIVE FirstKey(_, _, _)
\* The array under the first of keys for which Match holds, else [].
FirstKey(Match(_), data, keys) ==
  IF keys = <<>> THEN List(<<>>)
  ELSE IF Match(Head(keys)) THEN data.v[Head(keys)]
  ELSE FirstKey(Match, data, Tail(keys))

\* The candidate keys the adapter reads, in the order of CandidateKeys.
Candidates(prov) ==
  LET Read(key) == key \in Accepts(prov) IN SelectSeq(CandidateKeys, Read)

\* First match wins, a key matching when the document has it.
FirstPresent(prov, data) ==
  LET Present(key) == key \in DOMAIN data.v
  IN FirstKey(Present, data, Candidates(prov))

\* First match wins, a key matching when it holds a non-empty array.
FirstNonEmpty(prov, data) ==
  LET NonEmpty(key) == key \in DOMAIN data.v /\ Truthy(data.v[key])
  IN FirstKey(NonEmpty, data, Candidates(prov))

\* C19: the message array an adapter uses is the one under the first key,
\* in the order messages, conversation, history, turns, that matches among
\* the keys the adapter reads (a key matches when present, or when it holds
\* a non-empty array); a later key is used only when no earlier one matched.
C19_KeyOrderFixed ==
  keyCall # NoKey =>
    keyCall.conversation \in {FirstPresent(provider, file.body),
                              FirstNonEmpty(provider, file.body)}

\* The adapters whose lookup follows the order of C19.
OrderedAdapters == KeyAdapters \ {"continue", "copilot"}
KeyOrderElsewhere ==
  (keyCall # NoKey /\ provider \in OrderedAdapters) =>
    keyCall.conversation \in {FirstPresent(provider, file.body),
                              FirstNonEmpty(provider, file.body)}

\* ------------------------------------------------------------------------
\* Message timestamps (lib/parsers/opencode.py, lib/parsers/claude.py)
\* ------------------------------------------------------------------------

StampProviders == {"claude-code", "opencode"}

Lines == [parent |-> <<"storage">>, stem |-> <<"session1">>, suffix |-> ".jsonl"]

\* Values of a "timestamp" key: ISO-8601 text, text that is no date, epoch
\* seconds, epoch milliseconds, null.
StampValues ==
  {Str(<<ISO1>>), Str(<<ISO2>>), Str(<<"yesterday">>), Num, Big(6), Null}

Stamped(entry, ts) == Dict(entry.v @@ "timestamp" :> ts)

\* Entries of an OpenCode file: a turn with or without a timestamp.
StampTurn(role) == Dict("role" :> Str(<<role>>) @@ "content" :> Str(<<VAL>>))
StampEntries ==
  {StampTurn("user"), StampTurn("assistant")}
  \cup {Stamped(StampTurn("user"), ts) : ts \in StampValues}

\* Lines of a Claude Code transcript with and without a timestamp.
StampLines ==
  { ClaudeMeta,
    ClaudeTurn("user", Content(Str(<<VAL>>))),
    Stamped(ClaudeTurn("user", Content(Str(<<VAL>>))), Str(<<ISO2>>)),
    Stamped(ClaudeTurn("assistant", Content(Str(<<VAL>>))), Num) }

\* What a document carries beside its messages.
StampHeads ==
  { <<>>, "created_at" :> Str(<<ISO2>>), "timestamp" :> Num,
    "created_at" :> Str(<<"yesterday">>) }

StampTurns == UNION {[1..n -> StampEntries] : n \in 1..MaxMsgs}

StampBodies(prov, p) ==
  CASE prov = "claude-code" -> UNION {[1..n -> StampLines] : n \in 1..MaxLines}
    [] p.suffix = ".jsonl" -> StampTurns
    [] OTHER -> {Dict(h @@ "messages" :> List(ms)) :
                   h \in StampHeads, ms \in StampTurns}
                \cup {List(ms) : ms \in StampTurns}

StampPaths(prov) == IF prov = "opencode" THEN {LongStem, Lines} ELSE {LongStem}

InitStamps ==
  /\ provider \in StampProviders
  /\ path \in StampPaths(provider)
  /\ file \in {[readable |-> TRUE, mtime |-> 7, body |-> b] :
                 b \in StampBodies(provider, path)}
  /\ result = NotCalled
  /\ RedactorIdle
  /\ SweepIdle
  /\ OutputIdle
  /\ RoleIdle
  /\ KeysIdle
  /\ FindIdle
  /\ DiscoverIdle
  /\ WriterIdle
  /\ CallsIdle

NextStamps == ParseSessionCall

SpecStamps == InitStamps /\ [][NextStamps]_vars

\* The entries of a file, in order.
EntriesOf(prov, p, f) ==
  IF prov = "claude-code" \/ p.suffix = ".jsonl" THEN f.body
  ELSE IF f.body.t = "list" THEN f.body.v
  ELSE Items(OpenCodeConversation(f.body))

\* The file that holds the one entry e.
Single(prov, p, f, e) ==
  [f EXCEPT !.body = IF prov = "claude-code" \/ p.suffix = ".jsonl"
                     THEN <<e>> ELSE List(<<e>>)]

\* The entries that give a Message, in order.
Sources(prov, p, f) ==
  LET Yields(e) == ParseSession(prov, p, Single(prov, p, f, e)).kind = "session"
  IN SelectSeq(EntriesOf(prov, p, f), Yields)

\* The timestamp the resolution order gives the Message of entry e in
\* Session s: the entry's own when it parses, else the session's (which is
\* the file's modification time when the file carries none).
Resolved(e, s) ==
  LET own == OpenCodeParseTimestamp(Get(e, "timestamp", Null))
  IN IF own # 0 THEN own ELSE s.created_at

\* C18: every Message of a produced Session carries the timestamp of its
\* own entry when that entry has a parseable one (ISO-8601 text or a numeric
\* epoch), otherwise the session's timestamp, which is the file's
\* modification time when the file gives none; no Message is left without
\* a timestamp.
C18_MessageTimestampResolved ==
  (provider \in StampProviders /\ result.kind = "session") =>
    LET s == result.session
        src == Sources(provider, path, file)
    IN /\ Len(src) = Len(s.messages)
       /\ \A i \in DOMAIN s.messages :
            /\ s.messages[i].timestamp # 0
            /\ s.messages[i].timestamp = Resolved(src[i], s)

\* The part of C18 the OpenCode adapter keeps: an entry's own parseable
\* timestamp is the timestamp of its Message.
OwnTimestampKept ==
  (provider = "opencode" /\ result.kind = "session") =>
    LET s == result.session
        src == Sources(provider, path, file)
    IN /\ Len(src) = Len(s.messages)
       /\ \A i \in DOMAIN s.messages :
            OpenCodeParseTimestamp(Get(src[i], "timestamp", Null)) # 0 =>
              s.messages[i].timestamp = Resolved(src[i], s)

\* ------------------------------------------------------------------------
\* Two parse_session calls, one after the other or interleaved
\* ------------------------------------------------------------------------

\* The adapters whose parse_session loops over the lines of the file; the
\* others load one JSON document and their call is one step.
LineAdapters == {"claude-code", "codex"}

\* Files of the two calls, as the sequence of their lines or of their one
\* JSON document: several lines, with and without a timestamp, one that
\* raises in the middle of the loop, one that cannot be read.
CallBodies(prov) ==
  CASE prov = "claude-code" ->
         { <<ClaudeMeta, ClaudeTurn("user", Content(Str(<<VAL>>))),
             ClaudeTurn("assistant", Content(List(<<Str(<<SK>>)>>)))>>,
           <<ClaudeTurn("user", Content(Str(<<KW>>)))>>,
           <<ClaudeTurn("user", Content(Str(<<VAL>>))), Num, ClaudeMeta>> }
    [] prov = "codex" ->
         { <<Dict("timestamp" :> Str(<<ISO1>>) @@ "model" :> Str(<<"o3">>)),
             CodexTurn(Str(<<"user">>), Str(<<VAL>>)),
             CodexTurn(Str(<<"assistant">>), Str(<<SK>>))>>,
           <<CodexTurn(Str(<<"user">>), Str(<<KW>>))>>,
           <<CodexTurn(Str(<<"user">>), Str(<<VAL>>)), Null>> }
    [] OTHER ->
         { <<Conv("messages", List(<<Msg(Str(<<"user">>), Str(<<VAL>>))>>))>>,
           <<Conv("messages", List(<<Msg(Str(<<"user">>), Str(<<KW>>)),
                                     Msg(Str(<<"assistant">>), Str(<<SK>>))>>))>> }

\* The second line-based body, which has no timestamp, lies on disk with
\* two modification times.
CallFiles(prov) ==
  {[readable |-> TRUE, mtime |-> 7, body |-> b] : b \in CallBodies(prov)}
  \cup (IF prov \in LineAdapters
          THEN {[readable |-> TRUE, mtime |-> 8, body |-> b] :
                  b \in {b \in CallBodies(prov) : Len(b) = 1}}
               \cup {[readable |-> FALSE, mtime |-> 7, body |-> <<Garbage>>]}
          ELSE {})

\* The location of a call.
CallPath(prov) ==
  CASE prov = "cline" -> TaskDir
    [] prov = "continue" -> History
    [] OTHER -> LongStem

\* The call a parser has been asked for: its adapter, location and file,
\* where it stands, its locals, and what it returned.
Frame(prov, f) ==
  [prov |-> prov, path |-> CallPath(prov), file |-> f, pc |-> "ready",
   i |-> 0, st |-> NoLocals, overlapped |-> FALSE, out |-> NotCalled]

Frames ==
  UNION {{Frame(prov, f) : f \in CallFiles(prov)} : prov \in Providers}

CallLines(fr) == SelectSeq(fr.file.body, NotBlank)

\* The file of a call, as parse_session reads it.
SourceFile(fr) ==
  IF fr.prov \in LineAdapters THEN fr.file
  ELSE [fr.file EXCEPT !.body = Head(@)]

\* The body of the loop of parse_session for one line.
Entry(prov, st, line) ==
  IF prov = "claude-code" THEN ClaudeEntry(st, line) ELSE CodexEntry(st, line)

\* parse_session after its loop.
Finish(fr, st) ==
  CASE fr.prov = "claude-code" ->
         ClaudeReturn(fr.path, fr.file, CallLines(fr), st)
    [] fr.prov = "codex" ->
         CodexReturn(fr.path, fr.file, CallLines(fr), st)
    [] OTHER -> ParseSession(fr.prov, fr.path, SourceFile(fr))

\* Locals that outlive the call: the next call goes on with them.
KeptLocals(prev, p) == IF prev = NoLocals THEN NewLocals(p) ELSE prev

\* The locals a call starts with are fresh, whatever the call before left.
StartLocals(prev, p) == NewLocals(p)

\* One set of locals for all the calls.
SharedOwner(c) == 1

\* The frame that holds the locals of call c: its own.
Owner(c) == c

\* parse_session is entered: read_text, then the locals are set.
CallStart(c) ==
  /\ frames[c].pc = "ready"
  /\ IF frames[c].file.readable
       THEN frames' =
              [[frames EXCEPT ![c].pc = "running", ![c].i = 1]
                 EXCEPT ![Owner(c)].st = StartLocals(last, frames[c].path)]
       ELSE frames' = [frames EXCEPT ![c].pc = "returned",
                                     ![c].out = ReturnNone]
  /\ UNCHANGED <<last, notCalls>>

\* One iteration of the loop over the lines.
CallLine(c) ==
  /\ frames[c].pc = "running"
  /\ frames[c].prov \in LineAdapters
  /\ frames[c].i <= Len(CallLines(frames[c]))
  /\ frames[Owner(c)].st.exc = ""
  /\ frames' =
       [[frames EXCEPT ![c].i = @ + 1,
                       ![c].overlapped =
                          @ \/ \E d \in DOMAIN frames :
                                 d # c /\ frames[d].pc = "running"]
          EXCEPT ![Owner(c)].st =
                   Entry(frames[c].prov, @, CallLines(frames[c])[frames[c].i])]
  /\ UNCHANGED <<last, notCalls>>

\* The loop is over, or an exception left it: parse_session returns or
\* raises, and its locals are dead.
CallReturn(c) ==
  /\ frames[c].pc = "running"
  /\ \/ frames[c].prov \notin LineAdapters
     \/ frames[c].i > Len(CallLines(frames[c]))
     \/ frames[Owner(c)].st.exc # ""
  /\ frames' = [frames EXCEPT ![c].pc = "returned",
                              ![c].out = Finish(frames[c], frames[Owner(c)].st)]
  /\ last' = frames[Owner(c)].st
  /\ UNCHANGED notCalls

InitCalls ==
  /\ RedactorIdle
  /\ ParserIdle
  /\ SweepIdle
  /\ OutputIdle
  /\ RoleIdle
  /\ KeysIdle
  /\ FindIdle
  /\ DiscoverIdle
  /\ WriterIdle
  /\ frames \in [1..MaxCalls -> Frames]
  /\ last = NoLocals

NextCalls ==
  \E c \in 1..MaxCalls : CallStart(c) \/ CallLine(c) \/ CallReturn(c)

SpecCalls == InitCalls /\ [][NextCalls]_vars

\* ------------------------------------------------------------------------
\* Properties of repeated and interleaved calls
\* ------------------------------------------------------------------------

SameSource(a, b) ==
  frames[a].prov = frames[b].prov /\ frames[a].path = frames[b].path
    /\ frames[a].file = frames[b].file

RoleAdapters ==
  {"amp-jsonl", "amp", "cline", "codex", "continue", "copilot", "cursor",
   "gemini-cli", "opencode", "openrouter", "roo-code", "windsurf", "zed-ai"}

\* How an adapter compares the role: whether it lowers it first, and the
\* literals of each branch of its if / elif chain.
RoleTable(adapter) ==
  LET T(lower, user, assistant, system, tool) ==
        [lower |-> lower, user |-> user, assistant |-> assistant,
         system |-> system, tool |-> tool]
  IN CASE adapter = "amp-jsonl" -> T(TRUE, {"user"}, {"assistant", "model"}, {}, {})
       [] adapter = "amp" -> T(TRUE, {"user", "human"}, {"assistant", "ai", "model"}, {}, {})
       [] adapter = "cline" -> T(TRUE, {"user", "human"}, {"assistant", "ai"}, {}, {})
       [] adapter = "codex" -> T(FALSE, {"user"}, {"assistant"}, {}, {})
       [] adapter = "continue" -> T(TRUE, {"user"}, {"assistant"}, {}, {})
       [] adapter = "copilot" -> T(TRUE, {"user"}, {"assistant"}, {}, {})
       [] adapter = "cursor" -> T(TRUE, {"user"}, {"assistant", "ai"}, {}, {})
       [] adapter = "gemini-cli" -> T(TRUE, {"user"}, {"model", "assistant"}, {}, {})
       [] adapter = "opencode" ->
            T(TRUE, {"user"}, {"assistant", "model", "ai"}, {"system"}, {"tool"})
       [] adapter = "openrouter" ->
            T(TRUE, {"user"}, {"assistant", "model", "ai"}, {"system"},
              {"tool", "function"})
       [] adapter = "roo-code" -> T(TRUE, {"user", "human"}, {"assistant", "ai"}, {}, {})
       [] adapter = "windsurf" ->
            T(TRUE, {"user", "human"}, {"assistant", "ai", "model"}, {}, {})
       [] adapter = "zed-ai" -> T(TRUE, {"user"}, {"assistant", "model"}, {}, {})

\* The MessageRole the loop gives an entry of that role, "none" when no
\* branch takes it and no Message is appended.
MapRole(adapter, role) ==
  LET t == RoleTable(adapter)
      r == IF t.lower THEN LowerLexeme(role) ELSE role
  IN IF r \in t.user THEN "USER"
     ELSE IF r \in t.assistant THEN "ASSISTANT"
     ELSE IF r \in t.system THEN "SYSTEM"
     ELSE IF r \in t.tool THEN "TOOL"
     ELSE "none"

\* Role strings of source entries: the synonyms in three spellings, and a
\* role no adapter knows.
RoleSynonyms ==
  {"user", "human", "assistant", "ai", "model", "system", "tool", "function"}
RoleStrings ==
  RoleSynonyms
  \cup {"USER", "HUMAN", "ASSISTANT", "AI", "MODEL", "SYSTEM", "TOOL", "FUNCTION"}
  \cup {"User", "Human", "Assistant", "Ai", "Model", "System", "Tool", "Function"}
  \cup {"developer"}

\* An adapter is constructed.
InitRoles ==
  /\ provider \in RoleAdapters
  /\ path = NoPath
  /\ file = NoFile
  /\ result = NotCalled
  /\ roleCall = NoRole
  /\ KeysIdle
  /\ FindIdle
  /\ CallsIdle
  /\ DiscoverIdle
  /\ WriterIdle
  /\ RedactorIdle
  /\ SweepIdle
  /\ OutputIdle

\* The loop meets an entry whose role is the string given.
MapRoleCall(role) ==
  /\ roleCall' = [role |-> role, out |-> MapRole(provider, role)]
  /\ UNCHANGED notRole

NextRoles == \E role \in RoleStrings : MapRoleCall(role)

SpecRoles == InitRoles /\ [][NextRoles]_vars

\* The canonical role of a synonym.
Canonical(synonym) ==
  CASE synonym \in {"user", "human"} -> "USER"
    [] synonym \in {"assistant", "ai", "model"} -> "ASSISTANT"
    [] synonym = "system" -> "SYSTEM"
    [] synonym \in {"tool", "function"} -> "TOOL"

\* C11: every adapter maps a role synonym, in any letter case, to its one
\* canonical role.
C11_RoleMapping ==
  (roleCall.out # "idle" /\ LowerLexeme(roleCall.role) \in RoleSynonyms) =>
    roleCall.out = Canonical(LowerLexeme(roleCall.role))

\* ------------------------------------------------------------------------
\* Discovery: get_session_paths over a home directory
\* ------------------------------------------------------------------------

\* A location under the home directory is the sequence of its components;
\* disk maps the locations that exist to "dir", "file", or "locked" for a
\* directory the user may neither list nor search (mode 000).  The adapters
\* run with platform.system() = "Linux".

\* get_vscode_global_storage / get_cursor_global_storage, relative to home
VSCode == ".config/Code/User/globalStorage"
CursorGS == ".config/Cursor/User/globalStorage"

Range(s) == {s[i] : i \in DOMAIN s}
Last(p) == p[Len(p)]
Prefix(p, k) == SubSeq(p, 1, k)
IsUnder(d, p) == Len(p) > Len(d) /\ Prefix(p, Len(d)) = d
Children(d) == {p \in DOMAIN disk : Len(p) = Len(d) + 1 /\ IsUnder(d, p)}

\* os.stat(p): EACCES when a directory on the way is locked.
Stat(p) ==
  IF \E k \in 1..(Len(p) - 1) :
       Prefix(p, k) \in DOMAIN disk /\ disk[Prefix(p, k)] = "locked"
    THEN "EACCES"
    ELSE IF p \in DOMAIN disk THEN "ok" ELSE "ENOENT"

\* What get_session_paths did: the list it returned, or the exception that
\* left it.
Found(ps) == [exc |-> "none", paths |-> ps]
Raised(exc) == [exc |-> exc, paths |-> <<>>]

\* Two statements in sequence.
Then(a, b) ==
  IF a.exc # "none" THEN a
  ELSE IF b.exc # "none" THEN b
  ELSE Found(a.paths \o b.paths)

\* The order in which the operating system lists a set of entries.
RECURSIVE Order(_)
Order(S) ==
  IF S = {} THEN <<>>
  ELSE LET p == CHOOSE q \in S : TRUE IN <<p>> \o Order(S \ {p})

\* fnmatch of an entry name against one component of a glob pattern.
WildPatterns ==
  {"*", "*.json", "*.jsonl", "*.md", "conversation*.json", "history*.json",
   "session*.json", "messages*.json", "openrouter*.json",
   "openrouter*.jsonl", "chat*.json", "*.openrouter.json"}
JsonNames ==
  {"a.json", "conversation1.json", "history.json", "session1.json",
   "messages.json", "conversation.json", "tasks.json", "openrouter1.json",
   "chat1.json", "x.openrouter.json"}
Matches(pattern, name) ==
  CASE pattern = "*" -> TRUE
    [] pattern = "*.json" -> name \in JsonNames
    [] pattern = "*.jsonl" -> name = "b.jsonl"
    [] pattern = "*.md" -> name \in {"c.md", ".aider.chat.history.md"}
    [] pattern = "conversation*.json" ->
         name \in {"conversation1.json", "conversation.json"}
    [] pattern = "history*.json" -> name = "history.json"
    [] pattern = "session*.json" -> name = "session1.json"
    [] pattern = "messages*.json" -> name = "messages.json"
    [] pattern = "openrouter*.json" -> name = "openrouter1.json"
    [] pattern = "openrouter*.jsonl" -> FALSE
    [] pattern = "chat*.json" -> name = "chat1.json"
    [] pattern = "*.openrouter.json" -> name = "x.openrouter.json"
    [] OTHER -> name = pattern

IsDirEntry(p) == p \in DOMAIN disk /\ disk[p] \in {"dir", "locked"}

\* The directories "**" walks from d: d and every directory below it that
\* can be reached without listing a locked one.
Walk(d) ==
  {d} \cup {q \in DOMAIN disk :
              /\ IsUnder(d, q)
              /\ IsDirEntry(q)
              /\ \A k \in Len(d)..(Len(q) - 1) : disk[Prefix(q, k)] = "dir"}

\* pathlib's selectors: the locations under d that match the components
\* of pat.  A PermissionError of scandir or stat below d is swallowed.
RECURSIVE Select(_, _)
Select(d, pat) ==
  IF pat = <<>> THEN {d}
  ELSE IF ~(d \in DOMAIN disk /\ disk[d] = "dir") THEN {}
  ELSE IF Head(pat) = "**"
    THEN UNION {Select(s, Tail(pat)) : s \in Walk(d)}
  ELSE IF Head(pat) \in WildPatterns
    THEN UNION {Select(c, Tail(pat)) :
                  c \in {c \in Children(d) :
                           /\ Matches(Head(pat), Last(c))
                           /\ Tail(pat) # <<>> => IsDirEntry(c)}}
  ELSE LET c == d \o <<Head(pat)>> IN
       IF c \in DOMAIN disk /\ (Tail(pat) # <<>> => IsDirEntry(c))
         THEN Select(c, Tail(pat)) ELSE {}

\* list(base.glob(pattern)): is_dir(base) is outside pathlib's try.
Glob(base, pat) ==
  CASE Stat(base) = "EACCES" -> Raised("PermissionError")
    [] Stat(base) = "ok" -> Found(Order(Select(base, pat)))
    [] OTHER -> Found(<<>>)

\* list(base.rglob(name))
RGlob(base, name) == Glob(base, <<"**", name>>)

\* if p.exists(): body
IfExists(p, body) ==
  CASE Stat(p) = "EACCES" -> Raised("PermissionError")
    [] Stat(p) = "ok" -> body
    [] OTHER -> Found(<<>>)

\* if p.exists(): paths.append(p)
AppendIfExists(p) == IfExists(p, Found(<<p>>))

\* list(d.iterdir())
IterDir(d) ==
  CASE Stat(d) = "EACCES" -> Raised("PermissionError")
    [] Stat(d) = "ENOENT" -> Raised("FileNotFoundError")
    [] disk[d] = "locked" -> Raised("PermissionError")
    [] disk[d] = "file" -> Raised("NotADirectoryError")
    [] OTHER -> Found(Order(Children(d)))

\* The statements body[e], one after the other for the entries e of items.
RECURSIVE Each(_, _)
Each(items, body) ==
  IF items = <<>> THEN Found(<<>>)
  ELSE Then(body[Head(items)], Each(Tail(items), body))

\* for e in d.iterdir(): if e.is_dir(): body[e]
ForSubdirs(d, body) ==
  LET entries == IterDir(d) IN
  IF entries.exc # "none" THEN entries
  ELSE Each(SelectSeq(entries.paths, IsDirEntry), body)

\* base.py find_files
MaxDepth == 10
find_files(base_dir, pattern) ==
  LET WithinDepth(p) == Len(p) - Len(base_dir) <= MaxDepth IN
  IfExists(base_dir,
    LET r == RGlob(base_dir, pattern) IN
    IF r.exc # "none" THEN Found(<<>>)
    ELSE Found(SelectSeq(r.paths, WithinDepth)))

\* ---- get_session_paths of each adapter ----

\* claude.py
ClaudePaths == find_files(<<".claude/projects">>, "*.jsonl")

\* codex.py
CodexPaths == find_files(<<".codex/sessions">>, "*.jsonl")

\* cursor.py
CursorPaths ==
  LET projects_dir == <<CursorGS, "anysphere.cursor-chat">> IN
  IfExists(projects_dir,
    ForSubdirs(projects_dir,
      [project_dir \in Children(projects_dir) |->
         Glob(project_dir, <<"*.json">>)]))

\* aider.py
AiderDevDirs == <<"Projects", "Development", "code", "repos">>
AiderPaths ==
  LET xdg_config == <<".config/aider">> IN
  Then(AppendIfExists(<<".aider.chat.history.md">>),
  Then(IfExists(xdg_config, Glob(xdg_config, <<"*.md">>)),
       Each(AiderDevDirs,
            [dev_dir \in Range(AiderDevDirs) |->
               IfExists(<<dev_dir>>,
                        RGlob(<<dev_dir>>, ".aider.chat.history.md"))])))

\* cline.py
ClinePaths ==
  LET cline_dir == <<VSCode, "saoudrizwan.claude-dev">>
      tasks_file == cline_dir \o <<"tasks", "tasks.json">>
  IN
  CASE Stat(cline_dir) = "EACCES" -> Raised("PermissionError")
    [] Stat(cline_dir) = "ENOENT" -> Found(<<>>)
    [] Stat(tasks_file) = "EACCES" -> Raised("PermissionError")
    [] Stat(tasks_file) = "ok" -> Found(<<tasks_file>>)
    [] OTHER -> Glob(cline_dir, <<"tasks", "*", "conversation.json">>)

\* gemini.py
GeminiPaths ==
  LET sessions_dir == <<".gemini", "sessions">> IN
  Then(IfExists(sessions_dir,
         Then(Glob(sessions_dir, <<"*.json">>),
              Glob(sessions_dir, <<"*.jsonl">>))),
       AppendIfExists(<<".gemini", "history.json">>))

\* continue_dev.py
ContinuePaths ==
  LET continue_dir == <<VSCode, "continue.continue">>
      home_continue == <<".continue">>
  IN
  Then(IfExists(continue_dir,
         Then(IfExists(continue_dir \o <<"sessions">>,
                Glob(continue_dir \o <<"sessions">>, <<"*.json">>)),
              AppendIfExists(continue_dir \o <<"history.json">>))),
       IfExists(home_continue,
         IfExists(home_continue \o <<"sessions">>,
           Glob(home_continue \o <<"sessions">>, <<"*.json">>))))

\* copilot.py
CopilotPaths ==
  LET copilot_dir == <<VSCode, "github.copilot-chat">>
      copilot_cursor == <<CursorGS, "github.copilot-chat">>
  IN
  Then(IfExists(copilot_dir,
         Then(IfExists(copilot_dir \o <<"conversations">>,
                Glob(copilot_dir \o <<"conversations">>, <<"*.json">>)),
              AppendIfExists(copilot_dir \o <<"history.json">>))),
       IfExists(copilot_cursor,
         IfExists(copilot_cursor \o <<"conversations">>,
           Glob(copilot_cursor \o <<"conversations">>, <<"*.json">>))))

\* roo.py
RooPaths ==
  LET roo_dir == <<VSCode, "rooveterinaryinc.roo-cline">>
      tasks_dir == roo_dir \o <<"tasks">>
      home_roo == <<".roo-code">>
  IN
  Then(IfExists(roo_dir,
         Then(IfExists(tasks_dir,
                Then(Glob(tasks_dir, <<"*", "conversation.json">>),
                     Glob(tasks_dir, <<"*", "messages.json">>))),
              AppendIfExists(roo_dir \o <<"history.json">>))),
       IfExists(home_roo, Glob(home_roo, <<"**", "*.json">>)))

\* windsurf.py
WindsurfPaths ==
  LET windsurf_dir == <<".config/Windsurf">>
      global_storage == windsurf_dir \o <<"User/globalStorage">>
      codeium_dir == global_storage \o <<"codeium.codeium">>
  IN
  IfExists(windsurf_dir,
    IfExists(global_storage,
      Then(IfExists(codeium_dir, Glob(codeium_dir, <<"**", "*.json">>)),
           ForSubdirs(global_storage,
             [ext_dir \in Children(global_storage) |->
                Then(Glob(ext_dir, <<"**", "conversation*.json">>),
                     Glob(ext_dir, <<"**", "history*.json">>))]))))

\* zed.py
ZedPaths ==
  LET zed_dir == <<".config/zed">>
      convos_dir == zed_dir \o <<"conversations">>
      assistant_dir == zed_dir \o <<"assistant">>
      prompts_dir == zed_dir \o <<"prompts">>
  IN
  IfExists(zed_dir,
    Then(IfExists(convos_dir,
           Then(Glob(convos_dir, <<"*.json">>), Glob(convos_dir, <<"*.md">>))),
    Then(IfExists(assistant_dir, Glob(assistant_dir, <<"**", "*.json">>)),
         IfExists(prompts_dir, Glob(prompts_dir, <<"*.json">>)))))

\* amp.py
AmpPaths ==
  LET amp_dir == <<".amp">>
      sessions_dir == amp_dir \o <<"sessions">>
      convos_dir == amp_dir \o <<"conversations">>
      sg_dir == <<VSCode, "sourcegraph.cody-ai">>
  IN
  Then(IfExists(amp_dir,
         Then(IfExists(sessions_dir,
                Then(Glob(sessions_dir, <<"*.json">>),
                     Glob(sessions_dir, <<"*.jsonl">>))),
         Then(IfExists(convos_dir, Glob(convos_dir, <<"*.json">>)),
              AppendIfExists(amp_dir \o <<"history.json">>)))),
       IfExists(sg_dir,
         Then(Glob(sg_dir, <<"**", "conversation*.json">>),
              Glob(sg_dir, <<"**", "history*.json">>))))

\* opencode.py
OpenCodePaths ==
  LET opencode_dir == <<".local/share/opencode">>
      project_dir == opencode_dir \o <<"project">>
      global_storage == opencode_dir \o <<"global", "storage">>
  IN
  IfExists(opencode_dir,
    Then(IfExists(project_dir,
           ForSubdirs(project_dir,
             [project \in Children(project_dir) |->
                IfExists(project \o <<"storage">>,
                  Then(find_files(project \o <<"storage">>, "*.json"),
                       find_files(project \o <<"storage">>, "*.jsonl")))])),
    Then(IfExists(global_storage,
           Then(find_files(global_storage, "*.json"),
                find_files(global_storage, "*.jsonl"))),
         IfExists(project_dir,
           ForSubdirs(project_dir,
             [project \in Children(project_dir) |->
                Then(find_files(project, "session*.json"),
                     find_files(project, "messages*.json"))])))))

\* "openrouter" in subdir.name.lower()
OpenRouterNames == {"openrouter-chats"}

\* list(set(paths))
Dedup(r) ==
  IF r.exc # "none" THEN r ELSE Found(Order(Range(r.paths)))

\* openrouter.py
OpenRouterPatterns ==
  <<"openrouter*.json", "openrouter*.jsonl", "chat*.json",
    "conversation*.json", "*.openrouter.json">>
OpenRouterPaths ==
  LET openrouter_kit_dir == <<".openrouter-kit", "history">>
      kit == IfExists(openrouter_kit_dir, Found(<<openrouter_kit_dir>>))
      export_dirs == <<(<<"Downloads">>), <<"openrouter-exports">>,
                       <<".config", "openrouter", "exports">>,
                       <<".openrouter">> >> \o kit.paths
      OfDir(export_dir) ==
        IfExists(export_dir,
          Then(Each(OpenRouterPatterns,
                    [pattern \in Range(OpenRouterPatterns) |->
                       Glob(export_dir, <<pattern>>)]),
               ForSubdirs(export_dir,
                 [subdir \in Children(export_dir) |->
                    IF Last(subdir) \in OpenRouterNames
                      THEN Then(find_files(subdir, "*.json"),
                                find_files(subdir, "*.jsonl"))
                      ELSE Found(<<>>)])))
  IN
  IF kit.exc # "none" THEN kit
  ELSE Dedup(Each(export_dirs, [d \in Range(export_dirs) |-> OfDir(d)]))

\* PARSERS, in the order of the registry (parsers/__init__.py)
Registry ==
  <<"claude-code", "codex", "cursor", "aider", "cline", "gemini-cli",
    "continue", "copilot", "roo-code", "windsurf", "zed-ai", "amp",
    "opencode", "openrouter">>

\* parser.get_session_paths()
GetSessionPaths(prov) ==
  CASE prov = "claude-code" -> ClaudePaths
    [] prov = "codex" -> CodexPaths
    [] prov = "cursor" -> CursorPaths
    [] prov = "aider" -> AiderPaths
    [] prov = "cline" -> ClinePaths
    [] prov = "gemini-cli" -> GeminiPaths
    [] prov = "continue" -> ContinuePaths
    [] prov = "copilot" -> CopilotPaths
    [] prov = "roo-code" -> RooPaths
    [] prov = "windsurf" -> WindsurfPaths
    [] prov = "zed-ai" -> ZedPaths
    [] prov = "amp" -> AmpPaths
    [] prov = "opencode" -> OpenCodePaths
    [] prov = "openrouter" -> OpenRouterPaths

\* ---- Home directories ----

\* Entries that are files; every other entry is a directory.
FileNames == JsonNames \cup {"b.jsonl", "c.md", ".aider.chat.history.md"}

\* The directories and files an adapter looks at, and a few it does not.
Layout(prov) ==
  CASE prov = "claude-code" ->
         LET d == <<".claude/projects">> IN
         {d, d \o <<"proj">>, d \o <<"proj", "b.jsonl">>, d \o <<"b.jsonl">>,
          d \o <<"proj", "a.json">>}
    [] prov = "codex" ->
         LET d == <<".codex/sessions">> IN
         {d, d \o <<"2024">>, d \o <<"2024", "b.jsonl">>, d \o <<"b.jsonl">>}
    [] prov = "cursor" ->
         LET d == <<CursorGS, "anysphere.cursor-chat">> IN
         {<<CursorGS>>, d, d \o <<"proj">>, d \o <<"proj", "a.json">>,
          d \o <<"proj", "b.jsonl">>, d \o <<"a.json">>}
    [] prov = "aider" ->
         {<<".aider.chat.history.md">>, <<".config/aider">>,
          <<".config/aider", "c.md">>, <<"Projects">>, <<"Projects", "proj">>,
          <<"Projects", "proj", ".aider.chat.history.md">>, <<"code">>}
    [] prov = "cline" ->
         LET d == <<VSCode, "saoudrizwan.claude-dev">> IN
         {<<VSCode>>, d, d \o <<"tasks">>, d \o <<"tasks", "tasks.json">>,
          d \o <<"tasks", "t1">>, d \o <<"tasks", "t1", "conversation.json">>}
    [] prov = "gemini-cli" ->
         LET d == <<".gemini">> IN
         {d, d \o <<"sessions">>, d \o <<"sessions", "a.json">>,
          d \o <<"sessions", "b.jsonl">>, d \o <<"history.json">>}
    [] prov = "continue" ->
         LET d == <<VSCode, "continue.continue">> IN
         {<<VSCode>>, d, d \o <<"sessions">>, d \o <<"sessions", "a.json">>,
          d \o <<"history.json">>, <<".continue">>, <<".continue", "sessions">>,
          <<".continue", "sessions", "a.json">>}
    [] prov = "copilot" ->
         LET d == <<VSCode, "github.copilot-chat">>
             c == <<CursorGS, "github.copilot-chat">> IN
         {<<VSCode>>, d, d \o <<"conversations">>,
          d \o <<"conversations", "a.json">>, d \o <<"history.json">>,
          <<CursorGS>>, c, c \o <<"conversations">>,
          c \o <<"conversations", "a.json">>}
    [] prov = "roo-code" ->
         LET d == <<VSCode, "rooveterinaryinc.roo-cline">> IN
         {<<VSCode>>, d, d \o <<"tasks">>, d \o <<"tasks", "t1">>,
          d \o <<"tasks", "t1", "conversation.json">>,
          d \o <<"tasks", "t1", "messages.json">>, d \o <<"history.json">>,
          <<".roo-code">>, <<".roo-code", "a.json">>}
    [] prov = "windsurf" ->
         LET g == <<".config/Windsurf", "User/globalStorage">>
             d == g \o <<"codeium.codeium">> IN
         {<<".config/Windsurf">>, g, d, d \o <<"conversation1.json">>,
          d \o <<"a.json">>, d \o <<"chats">>,
          d \o <<"chats", "history.json">>, g \o <<"other.ext">>,
          g \o <<"other.ext", "history.json">>}
    [] prov = "zed-ai" ->
         LET d == <<".config/zed">> IN
         {d, d \o <<"conversations">>, d \o <<"conversations", "a.json">>,
          d \o <<"conversations", "c.md">>, d \o <<"assistant">>,
          d \o <<"assistant", "chats">>,
          d \o <<"assistant", "chats", "a.json">>, d \o <<"prompts">>,
          d \o <<"prompts", "a.json">>}
    [] prov = "amp" ->
         LET d == <<".amp">>
             s == <<VSCode, "sourcegraph.cody-ai">> IN
         {d, d \o <<"sessions">>, d \o <<"sessions", "a.json">>,
          d \o <<"sessions", "b.jsonl">>, d \o <<"conversations">>,
          d \o <<"history.json">>, <<VSCode>>, s,
          s \o <<"conversation1.json">>}
    [] prov = "opencode" ->
         LET d == <<".local/share/opencode">>
             p == d \o <<"project", "p1">> IN
         {d, d \o <<"project">>, p, p \o <<"storage">>,
          p \o <<"storage", "session1.json">>, p \o <<"storage", "b.jsonl">>,
          p \o <<"session1.json">>, d \o <<"global">>,
          d \o <<"global", "storage">>,
          d \o <<"global", "storage", "a.json">>}
    [] prov = "openrouter" ->
         LET d == <<"Downloads">>
             k == <<".openrouter-kit">> IN
         {d, d \o <<"openrouter1.json">>, d \o <<"chat1.json">>,
          d \o <<"openrouter-chats">>, d \o <<"openrouter-chats", "a.json">>,
          k, k \o <<"history">>, k \o <<"history", "conversation1.json">>}

\* Another provider's sessions on the same home directory.
Bystander(prov) ==
  IF prov = "openrouter"
    THEN {<<".claude/projects">>, <<".claude/projects", "b.jsonl">>}
    ELSE {<<"Downloads">>, <<"Downloads", "chat1.json">>}

\* At most this many directories of a home directory are locked.
MaxLocked == 1

\* A directory exists when its entries do.
Closed(S) == \A p \in S : \A k \in 1..(Len(p) - 1) : Prefix(p, k) \in S

DiskOf(S, L) ==
  [p \in S |-> IF p \in L THEN "locked"
               ELSE IF Last(p) \in FileNames THEN "file" ELSE "dir"]

Disks(prov) ==
  UNION {{DiskOf(S \cup Bystander(prov), L) :
            L \in {L \in SUBSET {p \in S : Last(p) \notin FileNames} :
                     Cardinality(L) <= MaxLocked}} :
           S \in {S \in SUBSET Layout(prov) : Closed(S)}}

\* ---- get_session_paths and sync_all as a state machine ----

\* One adapter is asked for its locations.
GetSessionPathsCall ==
  /\ found = NotAsked
  /\ found' = GetSessionPaths(provider)
  /\ UNCHANGED <<disk, syncIdx, swept, syncpc, notDiscover>>

\* sync_all builds the parsers and enters its loop.
SyncAllStart ==
  /\ syncpc = "idle"
  /\ syncpc' = "running"
  /\ syncIdx' = 1
  /\ UNCHANGED <<disk, found, swept, notDiscover>>

\* paths = self.get_session_paths() of parse_all, outside its try: the
\* exception leaves the generator.
ParseAllPaths(prov) == GetSessionPaths(prov)

\* One iteration of for provider, parser in all_parsers.items(): the
\* locations parse_all hands to parse_session, or the exception that
\* leaves list(parser.parse_all()) and sync_all.
SyncAllProvider ==
  /\ syncpc = "running"
  /\ syncIdx <= Len(Registry)
  /\ LET r == ParseAllPaths(Registry[syncIdx]) IN
       IF r.exc # "none"
         THEN /\ syncpc' = "raised"
              /\ UNCHANGED <<syncIdx, swept>>
         ELSE /\ swept' = Append(swept, [provider |-> Registry[syncIdx],
                                         locations |-> r.paths])
              /\ syncIdx' = syncIdx + 1
              /\ UNCHANGED syncpc
  /\ UNCHANGED <<disk, found, notDiscover>>

\* The loop is over; the Sessions go on to the outputs.
SyncAllCollected ==
  /\ syncpc = "running"
  /\ syncIdx > Len(Registry)
  /\ syncpc' = "done"
  /\ UNCHANGED <<disk, found, syncIdx, swept, notDiscover>>

InitDiscover ==
  /\ RedactorIdle
  /\ provider \in Range(Registry)
  /\ path = NoPath
  /\ file = NoFile
  /\ result = NotCalled
  /\ SweepIdle
  /\ OutputIdle
  /\ RoleIdle
  /\ KeysIdle
  /\ FindIdle
  /\ CallsIdle
  /\ WriterIdle
  /\ disk \in Disks(provider)
  /\ found = NotAsked
  /\ syncIdx = 0
  /\ swept = <<>>
  /\ syncpc = "idle"

NextDiscover ==
  GetSessionPathsCall \/ SyncAllStart \/ SyncAllProvider \/ SyncAllCollected

SpecDiscover == InitDiscover /\ [][NextDiscover]_vars


\* ------------------------------------------------------------------------
\* Properties of discovery
\* ------------------------------------------------------------------------

\* C12: a discovery failure is swallowed into an empty location list:
\* get_session_paths does not raise, and sync_all does not raise either, so
\* that its sweep goes on to the other providers.
C12_DiscoveryFailureSwallowed ==
  /\ found.exc \in {"idle", "none"}
  /\ syncpc # "raised"

\* The directories and files an adapter starts from.
Roots(prov) ==
  CASE prov = "claude-code" -> {<<".claude/projects">>}
    [] prov = "codex" -> {<<".codex/sessions">>}
    [] prov = "cursor" -> {<<CursorGS, "anysphere.cursor-chat">>}
    [] prov = "aider" ->
         {<<".aider.chat.history.md">>, <<".config/aider">>}
           \cup {<<d>> : d \in Range(AiderDevDirs)}
    [] prov = "cline" -> {<<VSCode, "saoudrizwan.claude-dev">>}
    [] prov = "gemini-cli" -> {<<".gemini">>}
    [] prov = "continue" -> {<<VSCode, "continue.continue">>, <<".continue">>}
    [] prov = "copilot" ->
         {<<VSCode, "github.copilot-chat">>, <<CursorGS, "github.copilot-chat">>}
    [] prov = "roo-code" ->
         {<<VSCode, "rooveterinaryinc.roo-cline">>, <<".roo-code">>}
    [] prov = "windsurf" -> {<<".config/Windsurf">>}
    [] prov = "zed-ai" -> {<<".config/zed">>}
    [] prov = "amp" -> {<<".amp">>, <<VSCode, "sourcegraph.cody-ai">>}
    [] prov = "opencode" -> {<<".local/share/opencode">>}
    [] prov = "openrouter" ->
         {<<"Downloads">>, <<"openrouter-exports">>,
          <<".config", "openrouter", "exports">>, <<".openrouter">>,
          <<".openrouter-kit", "history">>}

\* C13: on a home directory in which none of the provider's roots exist,
\* get_session_paths returns an empty list and does not raise.
C13_MissingRootsGiveEmpty ==
  (found # NotAsked /\ Roots(provider) \cap DOMAIN disk = {}) =>
    found = Found(<<>>)

\* C14: no location appears more than once in the list get_session_paths
\* returns, nor in the locations one sweep goes through for a provider.
C14_NoDuplicateLocations ==
  /\ \A i, j \in DOMAIN found.paths :
       i # j => found.paths[i] # found.paths[j]
  /\ \A n \in DOMAIN swept :
       \A i, j \in DOMAIN swept[n].locations :
         i # j => swept[n].locations[i] # swept[n].locations[j]

\* ------------------------------------------------------------------------
\* find_files as a walk (lib/parsers/base.py)
\* ------------------------------------------------------------------------

FindPattern == "*.json"

\* A chain of nested directories below d, n deep.
RECURSIVE Chain(_, _)
Chain(d, n) == IF n = 0 THEN {} ELSE {d \o <<"d">>} \cup Chain(d \o <<"d">>, n - 1)

RECURSIVE Deep(_, _)
Deep(d, n) == IF n = 0 THEN d ELSE Deep(d \o <<"d">>, n - 1)

\* The trees searched: a root with two subtrees and a file, and a chain of
\* directories with one file MaxDepth components below the root and one a
\* component deeper.
FindRoot == <<"root">>
FindTrees ==
  { {FindRoot},
    {FindRoot, FindRoot \o <<"a.json">>},
    {FindRoot, FindRoot \o <<"a.json">>,
     FindRoot \o <<"one">>, FindRoot \o <<"one", "a.json">>,
     FindRoot \o <<"two">>, FindRoot \o <<"two", "a.json">>,
     FindRoot \o <<"two", "sub">>, FindRoot \o <<"two", "sub", "session1.json">>},
    {FindRoot, FindRoot \o <<"one">>, FindRoot \o <<"one", "a.json">>,
     FindRoot \o <<"one", "b.jsonl">>,
     FindRoot \o <<"two">>, FindRoot \o <<"two", "a.json">>,
     FindRoot \o <<"three">>, FindRoot \o <<"three", "history.json">>},
    {FindRoot, FindRoot \o <<"one">>, FindRoot \o <<"one", "a.json">>}
      \cup Chain(FindRoot, MaxDepth)
      \cup {Deep(FindRoot, MaxDepth - 1) \o <<"a.json">>,
            Deep(FindRoot, MaxDepth) \o <<"a.json">>} }

FindDisks ==
  UNION {{DiskOf(S, L) :
            L \in {L \in SUBSET {p \in S : Last(p) \notin FileNames} :
                     Cardinality(L) <= MaxLocked}} :
           S \in FindTrees}

\* The directories a search is started from.
FindBases == {FindRoot, FindRoot \o <<"two">>, FindRoot \o <<"gone">>}

\* The orders in which the operating system can list a set of entries.
Orders(S) ==
  {s \in [1..Cardinality(S) -> S] : \A i, j \in DOMAIN s : i # j => s[i] # s[j]}

\* The search gives up at a PermissionError: if it left rglob, the except
\* clause of find_files would end the loop with the results so far.
AbortSearch(rest) == <<>>

\* scandir of a directory raised PermissionError: pathlib leaves that
\* directory and goes on with the directories still to visit.
OnPermissionError(rest) == rest

InitFind ==
  /\ disk \in FindDisks
  /\ found = NotAsked
  /\ syncIdx = 0
  /\ swept = <<>>
  /\ syncpc = "idle"
  /\ searched \in FindBases
  /\ pending = <<>>
  /\ results = <<>>
  /\ skipped = <<>>
  /\ findpc = "idle"
  /\ RedactorIdle
  /\ ParserIdle
  /\ SweepIdle
  /\ OutputIdle
  /\ RoleIdle
  /\ KeysIdle
  /\ CallsIdle
  /\ WriterIdle

\* find_files up to the first step of rglob: base_dir.exists() is outside
\* the try.
FindFilesStart ==
  /\ findpc = "idle"
  /\ findpc' = CASE Stat(searched) = "EACCES" -> "raised"
                 [] Stat(searched) = "ENOENT" -> "done"
                 [] OTHER -> "walking"
  /\ pending' = IF Stat(searched) = "ok" THEN <<searched>> ELSE <<>>
  /\ UNCHANGED <<searched, results, skipped, notFind>>

\* rglob reaches the next directory: it yields the entries that match, as
\* far as the depth check lets them through, and goes on with the
\* directories below, in the order the operating system lists them.
FindFilesVisit ==
  /\ findpc = "walking"
  /\ pending # <<>>
  /\ LET d == Head(pending)
         WithinDepth(p) == Len(p) - Len(searched) <= MaxDepth
     IN IF disk[d] = "locked"
        THEN /\ pending' = OnPermissionError(Tail(pending))
             /\ skipped' = Append(skipped, [dir |-> d, at |-> Len(results)])
             /\ results' = results
        ELSE /\ skipped' = skipped
             /\ \E entries \in Orders(Children(d)) :
                  /\ results' = results \o
                       SelectSeq(entries,
                         LAMBDA p : Matches(FindPattern, Last(p)) /\ WithinDepth(p))
                  /\ pending' = SelectSeq(entries, IsDirEntry) \o Tail(pending)
  /\ UNCHANGED <<searched, findpc, notFind>>

\* rglob is exhausted: return results.
FindFilesReturn ==
  /\ findpc = "walking"
  /\ pending = <<>>
  /\ findpc' = "done"
  /\ UNCHANGED <<searched, pending, results, skipped, notFind>>

NextFind == FindFilesStart \/ FindFilesVisit \/ FindFilesReturn

SpecFind == InitFind /\ [][NextFind]_vars

\* The entries below searched that match and can be reached without listing
\* a locked directory.
Reachable(p) ==
  /\ IsUnder(searched, p)
  /\ \A k \in Len(searched)..(Len(p) - 1) : disk[Prefix(p, k)] = "dir"
ReadableMatches ==
  {p \in DOMAIN disk : Reachable(p) /\ Matches(FindPattern, Last(p))}

\* C21: when the listing of a subtree raises a permission error, find_files
\* skips that subtree only: it returns every matching file of the readable
\* subtrees within max_depth, in whatever order the subtrees are listed, and
\* the same files as the search computed in one go.
C21_OnlyLockedSubtreeSkipped ==
  findpc = "done" =>
    /\ Range(results) =
         {p \in ReadableMatches : Len(p) - Len(searched) <= MaxDepth}
    /\ Range(results) = Range(find_files(searched, FindPattern).paths)

\* C21, its case: a subtree was skipped and files were returned after it.
C21_SkippedThenFound ==
  /\ findpc = "done"
  /\ \E i \in DOMAIN skipped : skipped[i].at < Len(results)
  /\ \E i \in DOMAIN skipped : skipped[i].at > 0

\* ------------------------------------------------------------------------
\* The depth of what discovery returns
\* ------------------------------------------------------------------------

\* The session files laid at the end of a chain of directories.
DeepNames ==
  {"a.json", "b.jsonl", ".aider.chat.history.md", "conversation1.json"}

\* A home directory with one root of the provider, a chain of MaxDepth
\* directories below it, and session files MaxDepth and MaxDepth + 1
\* components below the root.
DeepTree(r) ==
  {Prefix(r, k) : k \in 1..Len(r)}
  \cup Chain(r, MaxDepth)
  \cup {Deep(r, MaxDepth - 1) \o <<n>> : n \in DeepNames}
  \cup {Deep(r, MaxDepth) \o <<n>> : n \in DeepNames}

DeepDisks(prov) ==
  {DiskOf(DeepTree(r), {}) : r \in {r \in Roots(prov) : Last(r) \notin FileNames}}

InitDepth ==
  /\ provider \in Range(Registry)
  /\ path = NoPath
  /\ file = NoFile
  /\ result = NotCalled
  /\ disk \in DeepDisks(provider)
  /\ found = NotAsked
  /\ syncIdx = 0
  /\ swept = <<>>
  /\ syncpc = "idle"
  /\ searched \in Roots(provider) \cap DOMAIN disk
  /\ pending = <<>>
  /\ results = <<>>
  /\ skipped = <<>>
  /\ findpc = "idle"
  /\ RedactorIdle
  /\ SweepIdle
  /\ OutputIdle
  /\ RoleIdle
  /\ KeysIdle
  /\ CallsIdle
  /\ WriterIdle

NextDepth ==
  GetSessionPathsCall \/ FindFilesStart \/ FindFilesVisit \/ FindFilesReturn

SpecDepth == InitDepth /\ [][NextDepth]_vars

\* The number of components of p below the root of the provider it lies
\* under.
DepthBelowRoot(prov, p) ==
  LET r == CHOOSE r \in Roots(prov) : r = p \/ IsUnder(r, p) IN Len(p) - Len(r)

\* The first half of C22: find_files returns no path with more than
\* max_depth components relative to base_dir.
FindFilesDepthBounded ==
  \A i \in DOMAIN results : Len(results[i]) - Len(searched) <= MaxDepth

\* C22: every location discovery returns lies at most max_depth components
\* below the provider's root, both in the list of find_files and in the
\* list of every adapter's get_session_paths.
C22_DepthBounded ==
  /\ FindFilesDepthBounded
  /\ \A i \in DOMAIN found.paths :
       DepthBelowRoot(provider, found.paths[i]) <= MaxDepth

\* The adapters whose get_session_paths searches the tree below a root with
\* glob("**/...") or rglob and no depth check.
Unbounded == {"aider", "roo-code", "amp"}
DepthBoundedElsewhere ==
  provider \notin Unbounded =>
    \A i \in DOMAIN found.paths :
      DepthBelowRoot(provider, found.paths[i]) <= MaxDepth

\* ------------------------------------------------------------------------
\* parse_all as a state machine (lib/parsers/base.py)
\* ------------------------------------------------------------------------

\* Most locations get_session_paths returns.
MaxPaths == 2

Other == [parent |-> <<"sessions">>, stem |-> <<"sess-123", "4567">>,
          suffix |-> ".json"]
SweepPaths == {LongStem, Other, TaskDir}

\* Files of a sweep: one that parses to a Session, one that gives None, two
\* that are malformed.
SweepBodies(prov) ==
  CASE prov = "claude-code" ->
         { <<ClaudeTurn("user", Content(Str(<<VAL>>)))>>,
           <<ClaudeMeta>>, <<Num>>, <<Garbage>> }
    [] prov = "codex" ->
         { <<CodexTurn(Str(<<"assistant">>), Str(<<SK>>))>>,
           <<Dict("timestamp" :> Str(<<ISO1>>))>>, <<Num>>, <<Garbage>> }
    [] OTHER ->
         { Conv("messages", List(<<Msg(Str(<<"user">>), Str(<<VAL>>))>>)),
           EmptyDict, Conv("messages", Num), List(<<Num>>) }

SweepFiles(prov) ==
  {[readable |-> TRUE, mtime |-> 7, body |-> b] : b \in SweepBodies(prov)}

\* The sequences of distinct paths of at most MaxPaths locations.
PathLists ==
  {ps \in UNION {[1..n -> SweepPaths] : n \in 0..MaxPaths} :
     \A i, j \in DOMAIN ps : i # j => ps[i] # ps[j]}

\* The body of the loop of parse_all without its try/except: an exception
\* of parse_session leaves the generator.
ParseAllIterNoExcept(prov, p, f) ==
  LET r == ParseSession(prov, p, f) IN
  [yield |-> IF r.kind = "session" THEN <<r.session>> ELSE <<>>,
   crashed |-> r.kind = "raise"]

\* The body of the loop of parse_all for one path: what it yields, and
\* whether an exception leaves the generator.
ParseAllIter(prov, p, f) ==
  LET r == ParseSession(prov, p, f) IN
  [yield |-> IF r.kind = "session" THEN <<r.session>> ELSE <<>>,
   crashed |-> FALSE]

\* An adapter is constructed; files lie at the locations of its provider.
InitSweep ==
  /\ provider \in Providers
  /\ path = NoPath
  /\ file = NoFile
  /\ result = NotCalled
  /\ fs \in [SweepPaths -> SweepFiles(provider)]
  /\ discovered = <<>>
  /\ idx = 0
  /\ yielded = <<>>
  /\ pc = "idle"
  /\ RedactorIdle
  /\ OutputIdle
  /\ RoleIdle
  /\ KeysIdle
  /\ FindIdle
  /\ CallsIdle
  /\ DiscoverIdle
  /\ WriterIdle

\* paths = self.get_session_paths()
ParseAllStart ==
  /\ pc = "idle"
  /\ \E ps \in PathLists : discovered' = ps
  /\ idx' = 1
  /\ pc' = "running"
  /\ UNCHANGED <<fs, yielded, notSweep>>

\* One iteration of for path in paths.
ParseAllStep ==
  /\ pc = "running"
  /\ idx <= Len(discovered)
  /\ \E it \in {ParseAllIter(provider, discovered[idx], fs[discovered[idx]])} :
       /\ yielded' = yielded \o it.yield
       /\ pc' = IF it.crashed THEN "crashed" ELSE pc
  /\ idx' = idx + 1
  /\ UNCHANGED <<fs, discovered, notSweep>>

\* The loop is over: the generator is exhausted.
ParseAllReturn ==
  /\ pc = "running"
  /\ idx > Len(discovered)
  /\ pc' = "done"
  /\ UNCHANGED <<fs, discovered, idx, yielded, notSweep>>

NextSweep == ParseAllStart \/ ParseAllStep \/ ParseAllReturn

SpecSweep == InitSweep /\ [][NextSweep]_vars

\* ------------------------------------------------------------------------
\* Properties of parse_all
\* ------------------------------------------------------------------------

\* What parse_session does at the i-th discovered location.
Outcome(i) == ParseSession(provider, discovered[i], fs[discovered[i]])

\* The discovered locations without the bad ones, in order.
GoodLocations ==
  LET IsGood(p) == ParseSession(provider, p, fs[p]).kind = "session" IN
  SelectSeq(discovered, IsGood)

\* C2: no exception of parse_session leaves parse_all, and when the sweep
\* is over the Sessions yielded are those of the locations that parse, in
\* order, as if the bad locations were not there.
C2_SweepIsolation ==
  /\ pc # "crashed"
  /\ pc = "done" =>
       yielded = [i \in DOMAIN GoodLocations |->
                    ParseSession(provider, GoodLocations[i],
                                 fs[GoodLocations[i]]).session]

\* C2, its case: parse_session raised at one location and the Session of a
\* later location was yielded all the same.
C2_BadLocationSkipped ==
  /\ pc = "done"
  /\ \E i, j \in DOMAIN discovered :
       i < j /\ Outcome(i).kind = "raise" /\ Outcome(j).kind = "session"
  /\ Len(yielded) >= 1

\* ------------------------------------------------------------------------
\* Output writers (lib/outputs)
\* ------------------------------------------------------------------------

\* Most messages of a Session handed to a writer.
MaxOutMsgs == 2
\* Session.summary keeps this many characters of the first user message.
SummaryLen == 100

\* Message texts handed to a writer, each shorter than SummaryLen.
OutTexts == {<<VAL>>, <<SK>>, <<KW, "=", SK>>, <<VAL, " ", SK>>}
OutMessages ==
  {Message(role, Str(t)) : role \in {"USER", "ASSISTANT"}, t \in OutTexts}
OutSessions ==
  {Session(<<"0a1b2c3d">>, "claude-code", ms, 1, Null, Null, LongStem, 7) :
     ms \in UNION {[1..n -> OutMessages] : n \in 1..MaxOutMsgs}}

\* str.replace('\n', ' ')
ReplaceNewlines(s) ==
  [i \in DOMAIN s |-> IF s[i] = "\n\n" THEN "  " ELSE s[i]]

RECURSIVE FirstUser(_)
\* The first message of role USER, or a message of no role.
FirstUser(messages) ==
  IF messages = <<>> THEN Message("", Null)
  ELSE IF Head(messages).role = "USER" THEN Head(messages)
  ELSE FirstUser(Tail(messages))

\* Session.summary
Summary(s) ==
  LET msg == FirstUser(s.messages) IN
  IF msg.role = "USER"
  THEN Strip(ReplaceNewlines(Take(msg.content.v, SummaryLen))) \o <<"...">>
  ELSE <<"Session">>

\* content = redact_secrets(msg.content) if self.redact else msg.content
OutContent(flag, content) ==
  IF flag THEN Str(redact_secrets(content.v)) ELSE content

\* ObsidianOutput.generate_markdown: the summary of the front matter and
\* the message sections.
GenerateMarkdown(flag, s) ==
  [summary |-> ReplaceNewlines(Summary(s)),
   bodies |-> LET Shown(m) == m.role \in {"USER", "ASSISTANT", "TOOL"}
                  shown == SelectSeq(s.messages, Shown)
              IN [i \in DOMAIN shown |->
                    Message(shown[i].role, OutContent(flag, shown[i].content))]]

\* SQLiteOutput.write_session: the summary column of the sessions row and
\* the rows of messages.
SqliteRows(flag, s) ==
  [summary |-> Summary(s),
   bodies |-> [i \in DOMAIN s.messages |->
                 Message(s.messages[i].role,
                         OutContent(flag, s.messages[i].content))]]

\* BaseOutput.get_session_filename, or the primary key of the sessions table.
OutKey(out, s) ==
  IF out = "obsidian"
  THEN [provider |-> s.provider, created_at |-> s.created_at, id |-> s.id]
  ELSE [provider |-> "", created_at |-> 0, id |-> s.id]

\* A writer is constructed with its redact option; nothing is persisted yet.
InitOutput ==
  /\ output \in {"obsidian", "sqlite"}
  /\ redactFlag \in BOOLEAN
  /\ written = NoSession
  /\ store = <<>>
  /\ RedactorIdle
  /\ ParserIdle
  /\ SweepIdle
  /\ RoleIdle
  /\ KeysIdle
  /\ FindIdle
  /\ CallsIdle
  /\ DiscoverIdle
  /\ WriterIdle

\* output.write_session(session): what was there under the key is deleted,
\* then the session is written.
WriteSession(s) ==
  /\ written = NoSession
  /\ written' = s
  /\ store' = (OutKey(output, s) :>
                 IF output = "obsidian" THEN GenerateMarkdown(redactFlag, s)
                 ELSE SqliteRows(redactFlag, s)) @@ store
  /\ UNCHANGED <<output, redactFlag, notOutput>>

NextOutput == \E s \in OutSessions : WriteSession(s)

SpecOutput == InitOutput /\ [][NextOutput]_vars

\* ------------------------------------------------------------------------
\* Properties of the writers
\* ------------------------------------------------------------------------

\* The session with every message body redacted.
RedactedSession(s) ==
  [s EXCEPT !.messages =
     [i \in DOMAIN s.messages |->
        Message(s.messages[i].role, Str(redact_secrets(s.messages[i].content.v)))]]

\* C3: with redaction on, everything persisted that derives from message
\* text has been through redact_secrets: each body, and the summary.
C3_PersistedTextRedacted ==
  (redactFlag /\ written # NoSession) =>
    \A key \in DOMAIN store :
      /\ \A i \in DOMAIN store[key].bodies :
           store[key].bodies[i].content =
             Str(redact_secrets(written.messages[i].content.v))
      /\ store[key].summary \in
           { redact_secrets(Summary(written)), Summary(RedactedSession(written)) }

\* ------------------------------------------------------------------------
\* write_sessions over the output plugins (lib/outputs, lib/__init__.py)
\* ------------------------------------------------------------------------

\* Most Sessions handed to one write_sessions call.
MaxBatch == 2
\* Most write_sessions calls in one behaviour.
MaxRuns == 2

\* path.stat().st_mtime of a file an output wrote: the time of the sync,
\* later than the modification time of every source file.
WrittenAt == 9

\* Task directories of Cline, named by the time the task began: two begun
\* within the same hours and one begun later.
TaskA == [parent |-> <<"17123456", "78901">>, stem |-> <<"conversa", "tion">>, suffix |-> ".json"]
TaskB == [parent |-> <<"17123456", "99999">>, stem |-> <<"conversa", "tion">>, suffix |-> ".json"]
TaskC == [parent |-> <<"17129999", "00000">>, stem |-> <<"conversa", "tion">>, suffix |-> ".json"]
TaskPaths == {TaskA, TaskB, TaskC}

\* conversation.json of a task: one user message.
TaskFile(text) ==
  [readable |-> TRUE, mtime |-> 7,
   body |-> Dict("messages" :>
              List(<<Dict("role" :> Str(<<"user">>) @@ "content" :> Str(text))>>))]
TaskTexts == {<<VAL>>, <<KW, "=", SK>>}

\* The Sessions one sweep of the Cline adapter yields: each location once.
Batches ==
  {b \in UNION {[1..n -> {ParseSession("cline", p, TaskFile(t)).session :
                            p \in TaskPaths, t \in TaskTexts}] : n \in 0..MaxBatch} :
     \A i, j \in DOMAIN b : i # j => b[i].source_file # b[j].source_file}

\* OUTPUTS (lib/outputs/__init__.py); JSONOutput with and without
\* single_file.
FileKinds == {"obsidian", "html", "json"}
IdKinds == {"sqlite", "jsonl", "json-single"}
JsonKinds == {"json", "json-single", "jsonl"}
Targets ==
  {[kind |-> k, redact |-> r] : k \in FileKinds \cup IdKinds, r \in BOOLEAN}

\* The call that raises for a Session, at most one Session of the batch.
FaultKinds == {"session_exists", "needs_update", "write_session"}
FaultChoices(n) ==
  {f \in [1..n -> FaultKinds \cup {"none"}] :
     \A i, j \in 1..n : (f[i] # "none" /\ f[j] # "none") => i = j}

\* Session.to_dict: no source_mtime among its keys.
ToDict(s) ==
  [id |-> s.id, provider |-> s.provider, messages |-> s.messages,
   created_at |-> s.created_at, working_dir |-> s.working_dir,
   model |-> s.model, source_file |-> s.source_file, summary |-> Summary(s)]

\* The row of the sessions table that SQLiteOutput.write_session inserts.
SqlRow(s) ==
  [id |-> s.id, provider |-> s.provider, created_at |-> s.created_at,
   source_file |-> s.source_file, source_mtime |-> s.source_mtime]

\* What an output keeps of a Session: the file name or the id it goes by,
\* the modification time of the file written, and the row or document.
Stored(kind, s) ==
  [key |-> IF kind \in FileKinds THEN OutKey("obsidian", s) ELSE OutKey(kind, s),
   at |-> WrittenAt,
   row |-> IF kind = "sqlite" THEN SqlRow(s) ELSE ToDict(s)]

\* The entries an output finds for a Session: by path, or by id.
Hits(kind, st, s) ==
  LET Same(e) == IF kind \in FileKinds THEN e.key = OutKey("obsidian", s)
                 ELSE e.row.id = s.id
  IN SelectSeq(st, Same)

\* session_exists of each output
SessionExists(kind, st, s) == Hits(kind, st, s) # <<>>

\* row['source_mtime'] or 0; data.get('source_mtime', 0)
ExistingMtime(row) ==
  IF "source_mtime" \in DOMAIN row THEN row.source_mtime ELSE 0

\* needs_update of each output
NeedsUpdate(kind, st, s) ==
  LET hits == Hits(kind, st, s) IN
  IF hits = <<>> THEN TRUE
  ELSE IF kind \in FileKinds
       THEN IF s.source_mtime # 0 THEN s.source_mtime > hits[1].at ELSE FALSE
       ELSE s.source_mtime > ExistingMtime(hits[1].row)

\* for msg in session.messages: msg.content = redact_secrets(msg.content)
RedactInPlace(t, s) ==
  IF t.kind \in JsonKinds /\ t.redact THEN RedactedSession(s) ELSE s

\* The entries of an output without those a write of s takes away.
Without(kind, st, s) ==
  LET Kept(e) == IF kind \in FileKinds THEN e.key # OutKey("obsidian", s)
                 ELSE e.row.id # s.id
  IN SelectSeq(st, Kept)

\* write_session of each output: the Session object, the entries and the
\* cache after it.  The single-file JSON output only fills its cache.
WriteSessionOf(t, st, cch, s) ==
  LET s1 == RedactInPlace(t, s) IN
  [session |-> s1,
   store |-> IF t.kind = "json-single" THEN st
             ELSE Append(Without(t.kind, st, s1), Stored(t.kind, s1)),
   cache |-> IF t.kind = "json-single" THEN Append(cch, Stored(t.kind, s1))
             ELSE cch]

RECURSIVE Merge(_, _, _)
\* The merge loop of JSONOutput.finalize: an id that was in the file takes
\* the place of every entry of that id, another is appended.
Merge(existing, existing_ids, cch) ==
  IF cch = <<>> THEN existing
  ELSE LET new == Head(cch) IN
       Merge(IF new.row.id \in existing_ids
             THEN [i \in DOMAIN existing |->
                     IF existing[i].row.id = new.row.id THEN new ELSE existing[i]]
             ELSE Append(existing, new),
             existing_ids, Tail(cch))

\* output.finalize(), when the output has one
Finalize(t, st, cch) ==
  IF t.kind = "json-single" /\ cch # <<>>
  THEN Merge(st, {st[i].row.id : i \in DOMAIN st}, cch)
  ELSE st

\* An exception that leaves the body of the loop is not counted.
Uncounted(r, s, e) == r
\* except Exception as e: result.sessions_failed += 1; result.errors.append
Caught(r, s, e) ==
  [r EXCEPT !.failed = @ + 1, !.errors = Append(@, [id |-> s.id, error |-> e])]

\* result.sessions_synced += 1, result.sessions_skipped += 1
Synced(r) == [r EXCEPT !.synced = @ + 1]
Skipped(r) == [r EXCEPT !.skipped = @ + 1]

\* The Sessions of one sweep, parsed and handed to the outputs; no output
\* has written anything yet.
InitWrite ==
  /\ batch \in Batches
  /\ asParsed = batch
  /\ target = NoTarget
  /\ persisted = [k \in FileKinds \cup IdKinds |-> <<>>]
  /\ cache = <<>>
  /\ tally = NoTally
  /\ faults \in FaultChoices(Len(batch))
  /\ runs = <<>>
  /\ wpos = 0
  /\ wpc = "idle"
  /\ RedactorIdle
  /\ ParserIdle
  /\ SweepIdle
  /\ OutputIdle
  /\ RoleIdle
  /\ KeysIdle
  /\ FindIdle
  /\ CallsIdle
  /\ DiscoverIdle

\* sync_all: output = get_output(...); write_sessions up to its loop.
WriteSessionsStart(t) ==
  /\ wpc \in {"idle", "done"}
  /\ Len(runs) < MaxRuns
  /\ target' = t
  /\ cache' = <<>>
  /\ tally' = [NoTally EXCEPT !.found = Len(batch)]
  /\ wpos' = 1
  /\ wpc' = "running"
  /\ UNCHANGED <<batch, asParsed, persisted, faults, runs, notWriter>>

\* The body of the loop of write_sessions for one Session.
WriteSessionsStep ==
  /\ wpc = "running"
  /\ wpos <= Len(batch)
  /\ LET s == batch[wpos]
         st == persisted[target.kind]
         fault == faults[wpos]
         w == WriteSessionOf(target, st, cache, s)
         writes == ~SessionExists(target.kind, st, s)
                   \/ (fault # "needs_update" /\ NeedsUpdate(target.kind, st, s))
     IN
       IF fault = "session_exists"
          \/ (fault = "needs_update" /\ SessionExists(target.kind, st, s))
       THEN /\ tally' = Caught(tally, s, fault)
            /\ UNCHANGED <<batch, persisted, cache>>
       ELSE IF writes /\ fault = "write_session"
       THEN /\ tally' = Caught(tally, s, fault)
            /\ batch' = [batch EXCEPT ![wpos] = w.session]
            /\ UNCHANGED <<persisted, cache>>
       ELSE IF writes
       THEN /\ tally' = Synced(tally)
            /\ batch' = [batch EXCEPT ![wpos] = w.session]
            /\ persisted' = [persisted EXCEPT ![target.kind] = w.store]
            /\ cache' = w.cache
       ELSE /\ tally' = Skipped(tally)
            /\ UNCHANGED <<batch, persisted, cache>>
  /\ wpos' = wpos + 1
  /\ UNCHANGED <<target, asParsed, faults, runs, wpc, notWriter>>

\* write_sessions returns its SyncResult; sync_all calls finalize.
WriteSessionsReturn ==
  /\ wpc = "running"
  /\ wpos > Len(batch)
  /\ persisted' = [persisted EXCEPT
                     ![target.kind] = Finalize(target, @, cache)]
  /\ cache' = <<>>
  /\ runs' = Append(runs, [target |-> target, tally |-> tally])
  /\ wpc' = "done"
  /\ UNCHANGED <<target, batch, asParsed, tally, faults, wpos, notWriter>>

NextWrite ==
  \/ \E t \in Targets : WriteSessionsStart(t)
  \/ WriteSessionsStep
  \/ WriteSessionsReturn

SpecWrite == InitWrite /\ [][NextWrite]_vars

\* ------------------------------------------------------------------------
\* Properties of write_sessions
\* ------------------------------------------------------------------------

\* The Sessions for which some call raises.
Faulty == {i \in DOMAIN faults : faults[i] # "none"}

\* The source files an output holds data of.
SourcesIn(st) == {st[i].row.source_file : i \in DOMAIN st}

\* The plugins that have been handed the batch so far.
TargetsUsed ==
  {runs[i].target : i \in DOMAIN runs} \cup (IF wpc = "idle" THEN {} ELSE {target})

\* C26: writing a Session to an output that goes by id (SQLite, JSONL,
\* single-file JSON) never takes away what the output holds of another
\* source file: the Sessions of one sweep have distinct ids.
C26_OtherDataKept ==
  [][\A k \in IdKinds : SourcesIn(persisted[k]) \subseteq SourcesIn(persisted'[k])]_vars

\* What holds instead: nothing is taken away when the ids of the batch are
\* pairwise distinct, and the ids are distinct when the names of the task
\* directories differ in their first eight characters.
DistinctIdsKept ==
  /\ (\A i, j \in DOMAIN asParsed : i # j => asParsed[i].id # asParsed[j].id)
       => \A k \in IdKinds : \A i \in DOMAIN asParsed :
            (\E r \in DOMAIN runs :
               runs[r].target.kind = k /\ runs[r].tally.failed = 0)
              => asParsed[i].source_file \in SourcesIn(persisted[k])
  /\ \A i, j \in DOMAIN asParsed :
       asParsed[i].id = asParsed[j].id
         <=> Take(asParsed[i].source_file.parent, 8) = Take(asParsed[j].source_file.parent, 8)

\* C27: a write_sessions call on an output that an earlier call has written
\* every Session of the batch to, with the same Sessions, skips each of
\* them, whatever the format of the output.
C27_UnchangedSkipped ==
  (wpc = "done" /\ Len(runs) = 2 /\ Faulty = {}
     /\ runs[1].target.kind = runs[2].target.kind
     /\ runs[1].tally.synced = Len(batch))
    => runs[2].tally.skipped = Len(batch)

\* What holds instead: the outputs that compare with a stored modification
\* time (the file's, or the column of the SQLite row) skip; JSONL and
\* single-file JSON, whose documents hold no source_mtime, write again.
SkippedWhereStored ==
  (wpc = "done" /\ Len(runs) = 2 /\ Faulty = {}
     /\ runs[1].target.kind = runs[2].target.kind
     /\ runs[1].tally.synced = Len(batch))
    => IF runs[2].target.kind \in {"jsonl", "json-single"}
       THEN runs[2].tally.synced = Len(batch)
       ELSE runs[2].tally.skipped = Len(batch)

\* C28: write_session leaves the Session as it was parsed, every message's
\* content included, so each output of a sweep is handed the text as parsed.
C28_SessionUnchanged == batch = asParsed

\* What holds instead: the Sessions are as parsed as long as no JSON output
\* with redaction on has been handed them; after one, they are redacted.
ChangedByJsonOnly ==
  /\ (\A t \in TargetsUsed : ~(t.kind \in JsonKinds /\ t.redact)) => batch = asParsed
  /\ \A i \in DOMAIN batch : batch[i] \in {asParsed[i], RedactedSession(asParsed[i])}

\* C30: when write_sessions has returned, each Session of the list is
\* counted once, as synced, skipped or failed, so the three add up to
\* sessions_found, the length of the list; a Session for which
\* session_exists, needs_update or write_session raised is counted as
\* failed, and the others are processed all the same.
C30_EveryOneCounted ==
  /\ wpc = "running" =>
       tally.synced + tally.skipped + tally.failed = wpos - 1
  /\ wpc = "done" =>
       /\ tally.found = Len(batch)
       /\ tally.synced + tally.skipped + tally.failed = tally.found
       /\ tally.failed <= Cardinality(Faulty)
       /\ Len(tally.errors) = tally.failed
       /\ \A i \in DOMAIN tally.errors :
            \E j \in Faulty : tally.errors[i] = [id |-> batch[j].id, error |-> faults[j]]

\* C30, its case: write_session raised for the first Session of two and the
\* second was written.
C30_FailedThenSynced ==
  /\ wpc = "done"
  /\ Len(batch) = 2
  /\ faults[1] = "write_session"
  /\ tally.failed = 1
  /\ tally.synced = 1
  /\ batch[2].source_file \in SourcesIn(persisted[target.kind])

\* ------------------------------------------------------------------------
\* Properties of the redactor
\* ------------------------------------------------------------------------

RECURSIVE ValidOnly(_)
\* The patterns of a list that compile, in order.
ValidOnly(ps) ==
  IF ps = <<>> THEN <<>>
  ELSE (IF Head(ps).valid THEN <<Head(ps)>> ELSE <<>>) \o ValidOnly(Tail(ps))

\* C6: a pattern that does not compile is skipped alone: the redactor is
\* still constructed, and it holds every other pattern, in order.
C6_BrokenPatternSkipped ==
  constructed # "none" =>
    /\ constructed = "ready"
    /\ compiled = ValidOnly(patterns)

\* Texts in which a vendor token is the value of a generic assignment.
VendorTokens == {SK, YA}
VendorCategory(v) == IF v = SK THEN "api_key" ELSE "oauth"
VendorPlaceholder(v) ==
  IF v = SK THEN <<HEAD, " OpenAI API Key]">>
  ELSE <<HEAD, " Google OAuth Token]">>

\* s occurs in t as a contiguous run of lexemes.
Contains(t, s) ==
  \E i \in 1..(Len(t) - Len(s) + 1) : SubSeq(t, i, i + Len(s) - 1) = s

\* C7: a vendor token that is the value of a generic assignment is counted
\* once, under the vendor category, not under "credential", and the output
\* holds the intact vendor placeholder.
C7_VendorCountedOnce ==
  \A v \in VendorTokens :
    (call.op = "redact" /\ call.text = <<KW, "=", v>>) =>
      /\ call.result.redactions_count = 1
      /\ DOMAIN call.result.redaction_types = {VendorCategory(v)}
      /\ call.result.redaction_types[VendorCategory(v)] = 1
      /\ Contains(call.out, VendorPlaceholder(v))

\* C8: in the order of application the generic assignment fallback is last:
\* every other pattern of the redactor stands before it.
C8_GenericFallbackLast ==
  constructed = "ready" =>
    \A i \in DOMAIN compiled :
      compiled[i].re = "credential" => i = Len(compiled)

\* The patterns of the redactor that match the text as given.
MatchingPatterns(t) == {i \in DOMAIN compiled : Findall(compiled[i], t) > 0}

\* C9: when the text holds k occurrences of one pattern's secret and nothing
\* else that a pattern matches, redact replaces exactly those occurrences,
\* leaves the rest unchanged, and reports k for that category and in total.
C9_SingleCategoryCoverage ==
  \A i \in DOMAIN compiled :
    (call.op = "redact" /\ MatchingPatterns(call.text) = {i}) =>
      LET k == Findall(compiled[i], call.text) IN
        /\ call.out = Sub(compiled[i], call.text)
        /\ call.result.redactions_count = k
        /\ DOMAIN call.result.redaction_types = {compiled[i].category}
        /\ call.result.redaction_types[compiled[i].category] = k

\* The scenario of C9: "<text> sk-..." redacts to "<text> [REDACTED: OpenAI
\* API Key]" with one api_key redaction.
C9_ScenarioReached ==
  /\ call.op = "redact"
  /\ call.text = <<VAL, " ", SK>>
  /\ call.out = <<VAL, " ", HEAD, " OpenAI API Key]">>
  /\ call.result.redactions_count = 1

====
